---------------------------- MODULE Spec2Model ----------------------------
(***************************************************************************)
(* A model of sgreen, a terminal multiplexer without a daemon.             *)
(*                                                                         *)
(*  - detachReader (internal/ui/attach.go): the byte-level decoder that    *)
(*    turns keystrokes into pass-through bytes, window commands or detach. *)
(*  - Session / Window (internal/session): the window list of one session  *)
(*    and its mutators.                                                    *)
(*  - the session store seen by successive sgreen processes: the          *)
(*    in-memory index, the record files, the child processes, the keeper.  *)
(*                                                                         *)
(* Bytes are the integers 0..255; a string is a sequence of bytes.         *)
(***************************************************************************)
EXTENDS Integers, Sequences, FiniteSets, TLC

VARIABLES
    dr,        \* the detachReader: state, pending, digraph, commandChar, literalChar, bindings
    fed,       \* bytes the detachReader has read from the terminal so far
    passed,    \* bytes Read has returned to io.Copy (written to the PTY), in order
    readErr,   \* the error that ended io.Copy: none, ErrDetach or an ErrWindowCommand
    sessions,  \* the in-memory index of the running sgreen process: ID -> *Session
    disk,      \* the record files of the sessions directory: ID -> contents of ID.json
    tmp,       \* the temporary files save writes: ID -> contents of ID.json.tmp
    corrupted, \* the backups loadFromDisk leaves: ID -> contents of ID.json.corrupted
    children,  \* the child processes started on PTYs, by pid
    masterFds, \* for the PTY of each child, the processes holding its master open
    proc,      \* the running sgreen process: where it is and the session it works on
    result,    \* the last call the process made to the session package, with its error
    sb,        \* a ScrollbackBuffer: lines, maxLines, size, start
    appended,  \* the lines given to Append since the buffer was made or cleared
    flow,      \* copyWithFlowControl: its configuration, flowStopped, the bytes read, the sink
    loop       \* attachLoop of the running process: its iteration and the tasks it has started

decoderVars == <<dr, fed, passed, readErr>>

storeVars == <<sessions, disk, tmp, corrupted, children, masterFds, proc, result, loop>>

scrollVars == <<sb, appended>>

\* What the attach loop works with besides the session: the input decoder
\* and the scrollback buffer.
uiVars == <<decoderVars, scrollVars, flow>>

vars == <<dr, fed, passed, readErr, sessions, disk, tmp, corrupted, children, masterFds,
          proc, result, sb, appended, flow, loop>>

-----------------------------------------------------------------------------
(* Bounds *)

\* The longest keystroke sequence fed to one detachReader.
MaxInput == 4

\* The most PTY processes started while only the window mutators are called.
MaxWindowSpawn == 11

-----------------------------------------------------------------------------
(* Bytes *)

\* The keystrokes the terminal can deliver: ^A, LF, ^V, ', 'A', 'a', 'c', 'd',
\* 'z'. 'A', 'a', 'c', 'd' are also hexadecimal digits; the others are not.
Keys == {1, 10, 22, 39, 65, 97, 99, 100, 122}

\* hexValue: the value of a hexadecimal digit, -1 for any other byte.
hexValue(b) ==
    IF b >= 48 /\ b <= 57 THEN b - 48
    ELSE IF b >= 97 /\ b <= 102 THEN b - 97 + 10
    ELSE IF b >= 65 /\ b <= 70 THEN b - 65 + 10
    ELSE -1

\* hexByte: <<value, ok>>; byte((hi << 4) | lo) when both are digits.
hexByte_SwappedNibbles(a, b) ==
    LET hi == hexValue(a)
        lo == hexValue(b)
    IN  IF hi < 0 \/ lo < 0 THEN <<0, FALSE>>
        ELSE <<(lo * 16 + hi) % 256, TRUE>>

hexByte(a, b) ==
    LET hi == hexValue(a)
        lo == hexValue(b)
    IN  IF hi < 0 \/ lo < 0 THEN <<0, FALSE>>
        ELSE <<(hi * 16 + lo) % 256, TRUE>>


-----------------------------------------------------------------------------
(* detachReader: the errors Read returns *)

NoBytes == <<>>

\* nil
NoError == [kind |-> "none", Command |-> "", Window |-> NoBytes, Title |-> NoBytes]

\* ErrDetach
ErrDetach == [kind |-> "detach", Command |-> "", Window |-> NoBytes, Title |-> NoBytes]

\* &ErrWindowCommand{Command: cmd, Window: window, Title: title}
ErrWindowCommand(cmd, window, title) ==
    [kind |-> "command", Command |-> cmd, Window |-> window, Title |-> title]

\* The lengths of the buffer p that a caller passes to Read.
BufLens == {1, 2}

\* The custom binding tables tried: none, or one of 'c', 'd' bound to a
\* custom command.
BindingTables ==
    {<<>>} \cup {[k \in {key} |-> "custom"] : key \in {99, 100}}

\* The configurations tried: AttachConfig.CommandChar, LiteralChar, Bindings.
DecoderConfigs ==
    [commandChar : {1, 122}, literalChar : {97, 99, 100}, bindings : BindingTables]

\* newDetachReaderWithConfig
newDetachReaderWithConfig(config) ==
    [state       |-> 0,
     pending     |-> NoBytes,
     digraph     |-> NoBytes,
     commandChar |-> config.commandChar,
     literalChar |-> config.literalChar,
     bindings    |-> config.bindings]

\* What one call of Read hands back: the reader afterwards, the bytes copied
\* into p, the error, and whether a byte was taken from the terminal.
ReadReturn(d, bytes, err, took) ==
    [dr |-> d, bytes |-> bytes, err |-> err, took |-> took]

\* The keys of state 1 that return a window command at once (no text input).
ImmediateCommand(b) ==
    CASE b = 99  -> "create"
      [] b = 110 -> "next"
      [] b = 112 -> "prev"
      [] b = 107 -> "kill"
      [] b = 91  -> "copymode"
      [] b = 93  -> "paste"
      [] b = 63  -> "help"
      [] b = 58  -> "command"
      [] b = 46  -> "redraw"
      [] b = 120 -> "lock"
      [] b = 118 -> "version"
      [] b = 44  -> "license"
      [] b = 116 -> "time"
      [] b = 95  -> "blank"
      [] b = 115 -> "suspend"
      [] b = 92  -> "killall"
      [] b = 32  -> "next"
      [] b = 8   -> "prev"
      [] b = 127 -> "prev"
      [] b = 34  -> "list"
      [] OTHER   -> ""

\* The keys of state 1 that enter an input state: title, select, the four
\* filename states and digraph.
InputState(b) ==
    CASE b = 65  -> 2
      [] b = 39  -> 3
      [] b = 123 -> 4
      [] b = 125 -> 5
      [] b = 60  -> 6
      [] b = 62  -> 7
      [] b = 22  -> 8
      [] OTHER   -> 0

\* The command a text-input state returns at the line terminator.
TextCommand(st, text) ==
    CASE st = 2 -> ErrWindowCommand("title", NoBytes, text)
      [] st = 3 -> ErrWindowCommand("switch", text, NoBytes)
      [] st = 4 -> ErrWindowCommand("writebuffer", NoBytes, text)
      [] st = 5 -> ErrWindowCommand("readbuffer", NoBytes, text)
      [] st = 6 -> ErrWindowCommand("dumpscrollback", NoBytes, text)
      [] st = 7 -> ErrWindowCommand("dumpscrollback", NoBytes, text)

\* Read, state 0 (Normal): the command character is held back, any other
\* byte is returned at once.
ReadNormal_HardcodedCtrlA(d, b) ==
    IF b = 1
    THEN ReadReturn([d EXCEPT !.state = 1], NoBytes, NoError, TRUE)
    ELSE ReadReturn(d, <<b>>, NoError, TRUE)

ReadNormal(d, b) ==
    IF b = d.commandChar
    THEN ReadReturn([d EXCEPT !.state = 1], NoBytes, NoError, TRUE)
    ELSE ReadReturn(d, <<b>>, NoError, TRUE)

\* Read, state 1: whether the key has a custom binding (keyStr := string(b);
\* every key tried here is below 0x80, so string(b) is the one-byte string).
HasBinding_AfterDetach(d, b) == b # 100 /\ b \in DOMAIN d.bindings

HasBinding(d, b) == b \in DOMAIN d.bindings

\* Read, state 1, case dr.literalChar and case 'a': the command character
\* itself is returned and the reader is back in state 0.
LiteralEscape_EchoKey(d, b) ==
    ReadReturn([d EXCEPT !.state = 0], <<b>>, NoError, TRUE)

LiteralEscape(d, b) ==
    ReadReturn([d EXCEPT !.state = 0], <<d.commandChar>>, NoError, TRUE)

\* Read, state 1, default case for a key that is no command: the held-back
\* command character and the key are returned, the key through pending when
\* p has room for one byte only.
Unrecognized_DropHeld(d, plen, b) ==
    ReadReturn([d EXCEPT !.state = 0], <<b>>, NoError, TRUE)

Unrecognized(d, plen, b) ==
    IF plen >= 2
    THEN ReadReturn([d EXCEPT !.state = 0], <<d.commandChar, b>>, NoError, TRUE)
    ELSE ReadReturn([d EXCEPT !.state = 0, !.pending = Append(d.pending, b)],
                    <<d.commandChar>>, NoError, TRUE)

\* Read, state 1: the byte after the command character. The cases are tried
\* in the order of the source's switch.
ReadCommandKey(d, plen, b) ==
    IF HasBinding(d, b)
    THEN ReadReturn([d EXCEPT !.state = 0], NoBytes,
                    ErrWindowCommand(d.bindings[b], NoBytes, NoBytes), TRUE)
    ELSE IF b = 100
    THEN ReadReturn(d, NoBytes, ErrDetach, TRUE)
    ELSE IF b = d.literalChar
    THEN LiteralEscape(d, b)
    ELSE IF b = 97
    THEN LiteralEscape(d, b)
    ELSE IF b = d.commandChar
    THEN ReadReturn(d, NoBytes, ErrWindowCommand("toggle", NoBytes, NoBytes), TRUE)
    ELSE IF ImmediateCommand(b) # ""
    THEN ReadReturn(d, NoBytes, ErrWindowCommand(ImmediateCommand(b), NoBytes, NoBytes), TRUE)
    ELSE IF InputState(b) = 8
    THEN ReadReturn([d EXCEPT !.state = 8, !.digraph = NoBytes], NoBytes, NoError, TRUE)
    ELSE IF InputState(b) # 0
    THEN ReadReturn([d EXCEPT !.state = InputState(b)], NoBytes, NoError, TRUE)
    ELSE IF (b >= 48 /\ b <= 57) \/ (b >= 65 /\ b <= 90)
    THEN ReadReturn(d, NoBytes, ErrWindowCommand("switch", <<b>>, NoBytes), TRUE)
    ELSE Unrecognized(d, plen, b)

\* Read, states 2..7: a text-input state. The text is kept in dr.pending.
ReadText(d, b) ==
    IF b = 10 \/ b = 13
    THEN ReadReturn([d EXCEPT !.state = 0, !.pending = NoBytes], NoBytes,
                    TextCommand(d.state, d.pending), TRUE)
    ELSE ReadReturn([d EXCEPT !.pending = Append(d.pending, b)], NoBytes, NoError, TRUE)

\* Read, state 8: digraph input.
ReadDigraph(d, b) ==
    LET dg == Append(d.digraph, b)
    IN  IF Len(dg) < 2
        THEN ReadReturn([d EXCEPT !.digraph = dg], NoBytes, NoError, TRUE)
        ELSE LET hb == hexByte(dg[1], dg[2])
                 pend == IF hb[2] THEN Append(d.pending, hb[1]) ELSE d.pending \o dg
             IN  ReadReturn([d EXCEPT !.pending = pend, !.digraph = NoBytes, !.state = 0],
                            NoBytes, NoError, TRUE)

\* Read, first step: pending bytes are copied into p and returned before
\* anything is read from the terminal.
FlushPending(d, plen) ==
    LET copied == IF plen < Len(d.pending) THEN plen ELSE Len(d.pending)
    IN  ReadReturn([d EXCEPT !.pending = SubSeq(d.pending, copied + 1, Len(d.pending))],
                   SubSeq(d.pending, 1, copied), NoError, FALSE)

\* (dr *detachReader) Read(p) with len(p) = plen >= 1, when the terminal
\* delivers byte b to the one-byte read.
Read(d, plen, b) ==
    IF Len(d.pending) > 0 THEN FlushPending(d, plen)
    ELSE IF d.state = 0 THEN ReadNormal(d, b)
    ELSE IF d.state = 1 THEN ReadCommandKey(d, plen, b)
    ELSE IF d.state = 8 THEN ReadDigraph(d, b)
    ELSE ReadText(d, b)

-----------------------------------------------------------------------------
(* The input task: io.Copy(ptyProc.Pty, detachReader) *)

\* One iteration of io.Copy: a Read, and the bytes it returned are written
\* to the PTY. io.Copy stops at the first error Read returns.
CopyRead(plen, b) ==
    /\ readErr.kind = "none"
    /\ LET r == Read(dr, plen, b)
       IN  /\ r.took => Len(fed) < MaxInput
           /\ dr' = r.dr
           /\ fed' = IF r.took THEN Append(fed, b) ELSE fed
           /\ passed' = passed \o r.bytes
           /\ readErr' = r.err
    /\ UNCHANGED <<storeVars, scrollVars, flow>>

DecoderInit ==
    /\ \E config \in DecoderConfigs : dr = newDetachReaderWithConfig(config)
    /\ fed = NoBytes
    /\ passed = NoBytes
    /\ readErr = NoError
    /\ sessions = <<>>
    /\ disk = <<>>
    /\ tmp = <<>>
    /\ corrupted = <<>>
    /\ flow = <<>>
    /\ loop = <<>>
    /\ children = <<>>
    /\ masterFds = <<>>
    /\ proc = <<>>
    /\ result = <<>>
    /\ sb = <<>>
    /\ appended = <<>>

DecoderNext ==
    \E plen \in BufLens, b \in Keys : CopyRead(plen, b)

SpecDecoder == DecoderInit /\ [][DecoderNext]_vars

-----------------------------------------------------------------------------
(* internal/ui: ScrollbackBuffer *)

\* The most lines a buffer is made for, and the most lines appended to one.
MaxCapacity == 3

MaxAppends == 5

\* The size NewScrollbackBuffer gives a buffer asked for with no size.
DefaultScrollback == 1000

\* The lines appended: "a", "b" and the empty line.
Lines == {<<97>>, <<98>>, <<>>}

\* A nil []byte; an empty line is <<>>.
NilLine == <<-1>>

\* NewScrollbackBuffer(maxLines): the slots 0..maxLines-1 are nil.
NewScrollbackBuffer(maxLines) ==
    LET n == IF maxLines <= 0 THEN DefaultScrollback ELSE maxLines
    IN  [lines    |-> [slot \in 0..(n - 1) |-> NilLine],
         maxLines |-> n,
         size     |-> 0,
         start    |-> 0]

\* (sb *ScrollbackBuffer) Append(line)
ScrollbackAppend_KeepStart(b, line) ==
    IF b.size < b.maxLines
    THEN [b EXCEPT !.lines[b.size] = line, !.size = b.size + 1]
    ELSE [b EXCEPT !.lines[b.start] = line]

ScrollbackAppend(b, line) ==
    IF b.size < b.maxLines
    THEN [b EXCEPT !.lines[b.size] = line, !.size = b.size + 1]
    ELSE [b EXCEPT !.lines[b.start] = line,
                   !.start = (b.start + 1) % b.maxLines]

\* (sb *ScrollbackBuffer) GetLine(index)
GetLine(b, index) ==
    IF index < 0 \/ index >= b.size THEN NilLine
    ELSE b.lines[(b.start + index) % b.maxLines]

\* (sb *ScrollbackBuffer) Clear()
ScrollbackClear(b) == [b EXCEPT !.size = 0, !.start = 0]

\* A buffer nobody has written to.
ScrollbackIdle ==
    /\ sb = NewScrollbackBuffer(1)
    /\ appended = <<>>

CallAppend(line) ==
    /\ Len(appended) < MaxAppends
    /\ sb' = ScrollbackAppend(sb, line)
    /\ appended' = Append(appended, line)
    /\ UNCHANGED <<decoderVars, storeVars, flow>>

CallClear ==
    /\ sb.size > 0
    /\ sb' = ScrollbackClear(sb)
    /\ appended' = <<>>
    /\ UNCHANGED <<decoderVars, storeVars, flow>>

ScrollbackInit ==
    /\ \E maxLines \in 1..MaxCapacity : sb = NewScrollbackBuffer(maxLines)
    /\ appended = <<>>
    /\ dr = <<>>
    /\ fed = <<>>
    /\ passed = <<>>
    /\ readErr = <<>>
    /\ sessions = <<>>
    /\ disk = <<>>
    /\ tmp = <<>>
    /\ corrupted = <<>>
    /\ flow = <<>>
    /\ loop = <<>>
    /\ children = <<>>
    /\ masterFds = <<>>
    /\ proc = <<>>
    /\ result = <<>>

ScrollbackNext ==
    \/ \E line \in Lines : CallAppend(line)
    \/ CallClear

SpecScrollback == ScrollbackInit /\ [][ScrollbackNext]_vars

\* The bytes written through scrollbackWriter: "a", "b" and the newline.
OutputBytes == {97, 98, 10}

\* The most bytes written to one buffer.
MaxWritten == 4

Writes == UNION {[1..n -> OutputBytes] : n \in 1..MaxWritten}

\* bytes.Split(data, []byte{'\n'}): the parts between the newlines, one more
\* than there are newlines.
RECURSIVE SplitLines(_)
SplitLines(data) ==
    IF data = <<>> THEN << <<>> >>
    ELSE IF Head(data) = 10 THEN << <<>> >> \o SplitLines(Tail(data))
    ELSE LET rest == SplitLines(Tail(data))
         IN  << <<Head(data)>> \o rest[1] >> \o Tail(rest)

\* The body of the loop of AppendBytes for part i of parts: the first part
\* is joined to the last line when there is one, an empty last part is
\* passed over, every other part is appended as a line.
AppendPart(b, parts, i) ==
    IF i = 1
    THEN IF b.size > 0
         THEN [b EXCEPT !.lines[(b.start + b.size - 1) % b.maxLines] = @ \o parts[i]]
         ELSE ScrollbackAppend(b, parts[i])
    ELSE IF i = Len(parts) /\ parts[i] = <<>> THEN b
    ELSE ScrollbackAppend(b, parts[i])

RECURSIVE AppendParts(_, _, _)
AppendParts(b, parts, i) ==
    IF i > Len(parts) THEN b ELSE AppendParts(AppendPart(b, parts, i), parts, i + 1)

\* (sb *ScrollbackBuffer) AppendBytes(data)
AppendBytes(b, data) == AppendParts(b, SplitLines(data), 1)

\* scrollbackWriter.Write(p): AppendBytes(p); appended is the stream so far.
CallWrite(p) ==
    /\ Len(appended) + Len(p) <= MaxWritten
    /\ sb' = AppendBytes(sb, p)
    /\ appended' = appended \o p
    /\ UNCHANGED <<decoderVars, storeVars, flow>>

WriterNext == \E p \in Writes : CallWrite(p)

\* The buffer of a window at the head of its first iteration, written to by
\* the output task only.
SpecWriter == ScrollbackInit /\ [][WriterNext]_vars

-----------------------------------------------------------------------------
(* internal/ui: copyWithFlowControl, the output task's copy from the PTY *)

XON == 17

XOFF == 19

\* The bytes the PTY sends: XON, XOFF, "X" and "Y".
FlowBytes == {XON, XOFF, 88, 89}

\* The most bytes the PTY sends, and the most one Read returns (the buffer
\* of the code has 4096).
MaxStream == 4

MaxChunk == 4

Chunks == UNION {[1..n -> FlowBytes] : n \in 1..MaxChunk}

\* The loop over the n bytes of one Read: an XOFF sets flowStopped, an XON
\* clears it, neither is appended to data; every other byte is.
FilterByte_KeepXON(st, b) ==
    IF b = XOFF THEN [st EXCEPT !.flowStopped = TRUE]
    ELSE IF b = XON THEN [flowStopped |-> FALSE, data |-> Append(st.data, b)]
    ELSE [st EXCEPT !.data = Append(@, b)]

FilterByte(st, b) ==
    IF b = XOFF THEN [st EXCEPT !.flowStopped = TRUE]
    ELSE IF b = XON THEN [st EXCEPT !.flowStopped = FALSE]
    ELSE [st EXCEPT !.data = Append(@, b)]

RECURSIVE Filter(_, _)
Filter(st, chunk) ==
    IF chunk = <<>> THEN st ELSE Filter(FilterByte(st, Head(chunk)), Tail(chunk))

\* copyWithFlowControl(src, dst, flowControl) at the head of its loop.
FlowStarted(enabled, interrupt) ==
    [Enabled |-> enabled, Interrupt |-> interrupt, flowStopped |-> FALSE,
     read |-> <<>>, sink |-> <<>>, writeFailed |-> FALSE, returned |-> FALSE]

\* One iteration: src.Read returns chunk; dst.Write fails when writeErr.
\* Without flow control io.Copy writes what it reads.
FlowRead(chunk, writeErr) ==
    /\ ~flow.returned
    /\ Len(flow.read) + Len(chunk) <= MaxStream
    /\ LET st == Filter([flowStopped |-> flow.flowStopped, data |-> <<>>], chunk)
           data == IF flow.Enabled THEN st.data ELSE chunk
           writes == IF flow.Enabled THEN ~st.flowStopped /\ Len(data) > 0 ELSE TRUE
       IN  flow' = [flow EXCEPT
                      !.read = @ \o chunk,
                      !.sink = IF writes /\ ~writeErr THEN @ \o data ELSE @,
                      !.flowStopped = IF ~flow.Enabled THEN @
                                      ELSE IF writes /\ writeErr /\ ~flow.Interrupt THEN TRUE
                                      ELSE st.flowStopped,
                      !.writeFailed = @ \/ (writes /\ writeErr),
                      !.returned = writes /\ writeErr /\ (flow.Interrupt \/ ~flow.Enabled)]
    /\ UNCHANGED <<decoderVars, storeVars, scrollVars>>

\* src.Read returns io.EOF: the copy returns nil.
FlowEOF ==
    /\ ~flow.returned
    /\ flow' = [flow EXCEPT !.returned = TRUE]
    /\ UNCHANGED <<decoderVars, storeVars, scrollVars>>

FlowInit ==
    /\ \E enabled \in BOOLEAN, interrupt \in BOOLEAN : flow = FlowStarted(enabled, interrupt)
    /\ dr = <<>>
    /\ fed = <<>>
    /\ passed = <<>>
    /\ readErr = <<>>
    /\ sessions = <<>>
    /\ disk = <<>>
    /\ tmp = <<>>
    /\ corrupted = <<>>
    /\ children = <<>>
    /\ masterFds = <<>>
    /\ proc = <<>>
    /\ result = <<>>
    /\ sb = <<>>
    /\ appended = <<>>
    /\ loop = <<>>

FlowNext ==
    \/ \E chunk \in Chunks, writeErr \in BOOLEAN : FlowRead(chunk, writeErr)
    \/ FlowEOF

SpecFlow == FlowInit /\ [][FlowNext]_vars

-----------------------------------------------------------------------------
(* internal/pty: PTY processes as the operating system sees them *)

\* A nil *PTYProcess.
\* attachLoop not running: no iteration, no task. watchers counts the
\* resize-watcher tasks, readers holds one <<iteration, slave path>> for each
\* output task that reads a PTY master; startedKeeper, calls and hooks are
\* those of the OnDetach closure of attachToSession.
\* buffers holds <<key, slave path>> for each window whose output task was
\* given the buffer scrollbackBuffers[key]; inputs holds one <<iteration,
\* slave path>> for each input task that copies from the terminal to a PTY.
NoLoop ==
    [iteration |-> 0, watchers |-> 0, readers |-> {}, buffers |-> {}, inputs |-> {},
     startedKeeper |-> FALSE, calls |-> 0, hooks |-> 0]

\* The most iterations of attachLoop in one process.
MaxIterations == 4

\* The head of an iteration of attachLoop on the window win: the buffer
\* scrollbackBuffers[win.ID] is taken, or made when there is none, a resize
\* watcher is started, an output task that copies from the master of win's
\* handle into that buffer, and an input task that copies from the
\* terminal to that master; the tasks of the iterations before are not
\* stopped, and no buffer is ever taken off the map.
StartIteration(l, win) ==
    [l EXCEPT !.iteration = @ + 1,
              !.watchers  = @ + 1,
              !.readers   = @ \cup {<<l.iteration + 1, win.PTYProcess.PtsPath>>},
              !.buffers   = @ \cup {<<win.ID, win.PTYProcess.PtsPath>>},
              !.inputs    = @ \cup {<<l.iteration + 1, win.PTYProcess.PtsPath>>}]

\* The input task of the current iteration has returned from io.Copy (its
\* reader gave it ErrDetach or a window command) and has ended.
InputEnded(l) == [l EXCEPT !.inputs = {t \in @ : t[1] # l.iteration}]

\* The read of the master of pty has returned for good (its child is gone):
\* the output tasks that read it end.
ReadEnded(l, pty) == [l EXCEPT !.readers = {t \in @ : t[2] # pty}]

NilPTY == [nil |-> TRUE, Cmd |-> 0, Pty |-> "nil", PtsPath |-> 0]

\* The PTYProcess that StartWithEnv returns for child pid: the command, the
\* master file and the slave path. Slave paths are numbered like the child
\* that runs on them; 0 is the empty path.
StartedPTY(pid) == [nil |-> FALSE, Cmd |-> pid, Pty |-> "master", PtsPath |-> pid]

\* StartWithEnv, the operating system's side: child pid runs on a new PTY
\* whose master the sgreen process holds.
Spawned(pid) == [state |-> "running", cause |-> "none", parent |-> "sgreen"]

\* kill(pid, 0): the process exists, running or not yet reaped.
SignalZero(pid) ==
    /\ pid \in 1..Len(children)
    /\ children[pid].state \in {"running", "zombie"}

\* isProcessAlive(pid)
isProcessAlive(pid) == SignalZero(pid)

\* IsAlive as it would be if a child that has exited were seen as gone
\* before anything waits for it.
IsAlive_RunningOnly(p) ==
    IF p.Cmd = 0 THEN p.Pty # "nil"
    ELSE p.Cmd \in 1..Len(children) /\ children[p.Cmd].state = "running"

\* (p *PTYProcess) IsAlive()
IsAlive(p) ==
    IF p.Cmd = 0 THEN p.Pty # "nil" ELSE SignalZero(p.Cmd)

\* A child that receives a fatal signal: it stays a zombie while its parent
\* sgreen process runs (nothing waits for it), and is reaped otherwise.
Terminated(c, cause) ==
    IF c.state # "running" THEN c
    ELSE [c EXCEPT !.state = IF c.parent = "sgreen" THEN "zombie" ELSE "reaped",
                   !.cause = cause]

\* (p *PTYProcess) Kill(): the pids that receive SIGKILL.
KillTargets(p) == IF p.nil \/ p.Cmd = 0 THEN {} ELSE {p.Cmd}

-----------------------------------------------------------------------------
(* internal/session: Window and Session *)

SessionIDs == {"demo"}

\* The most windows a session holds.
MaxWindows == 36

\* windowNumberToString: 0-9, then A-Z.
windowNumberToString_Lowercase(id) ==
    IF id < 10 THEN <<48 + id>> ELSE <<97 + (id - 10)>>

windowNumberToString(id) ==
    IF id < 10 THEN <<48 + id>> ELSE <<65 + (id - 10)>>

\* fmt.Sscanf(s, "%d", &id) on a string of decimal digits; -1 when the
\* string does not start with a digit.
RECURSIVE ScanDecimal(_, _)
ScanDecimal(str, acc) ==
    IF str = <<>> \/ Head(str) < 48 \/ Head(str) > 57 THEN acc
    ELSE ScanDecimal(Tail(str), (IF acc < 0 THEN 0 ELSE acc * 10) + (Head(str) - 48))

\* windowStringToNumber: the window ID, or -1 with an error.
windowStringToNumber(str) ==
    IF Len(str) = 0 THEN -1
    ELSE IF Len(str) = 1 /\ str[1] >= 48 /\ str[1] <= 57 THEN str[1] - 48
    ELSE IF Len(str) = 1 /\ str[1] >= 65 /\ str[1] <= 90 THEN str[1] - 65 + 10
    ELSE IF Len(str) = 1 /\ str[1] >= 97 /\ str[1] <= 122 THEN str[1] - 97 + 10
    ELSE LET id == ScanDecimal(str, -1)
         IN  IF id >= 0 /\ id <= 35 THEN id ELSE -1

\* &Window{...} as NewWithConfig and CreateWindow build it.
NewWindow(id, ptyProc) ==
    [ID         |-> id,
     Number     |-> windowNumberToString(id),
     Title      |-> NoBytes,
     Pid        |-> ptyProc.Cmd,
     PtsPath    |-> ptyProc.PtsPath,
     PTYProcess |-> ptyProc]

\* A nil *Session.
NilSession == [nil |-> TRUE]

\* &Session{...} as NewWithConfig builds it around its first window.
NewSession(id, ptyProc) ==
    [nil           |-> FALSE,
     ID            |-> id,
     Pid           |-> ptyProc.Cmd,
     PtsPath       |-> ptyProc.PtsPath,
     Windows       |-> <<NewWindow(0, ptyProc)>>,
     CurrentWindow |-> 0,
     LastWindow    |-> 0,
     PTYProcess    |-> ptyProc]

\* (s *Session) GetCurrentWindow(): the window, or a window with ID -1 for nil.
NilWindow == [ID |-> -1, Number |-> NoBytes, Title |-> NoBytes, Pid |-> 0,
              PtsPath |-> 0, PTYProcess |-> NilPTY]

GetCurrentWindow(s) ==
    IF Len(s.Windows) = 0 \/ s.CurrentWindow < 0 \/ s.CurrentWindow >= Len(s.Windows)
    THEN NilWindow
    ELSE s.Windows[s.CurrentWindow + 1]

\* (s *Session) GetPTYProcess(): the current window's, else the session's own.
GetPTYProcess(s) ==
    IF /\ Len(s.Windows) > 0
       /\ s.CurrentWindow < Len(s.Windows)
       /\ ~s.Windows[s.CurrentWindow + 1].PTYProcess.nil
    THEN s.Windows[s.CurrentWindow + 1].PTYProcess
    ELSE s.PTYProcess

\* What a mutator hands back: the session afterwards, the error ("" for
\* nil), whether it started a PTY process, and the pids it killed.
Returned(s, err, started, killed) ==
    [sess |-> s, err |-> err, started |-> started, killed |-> killed]

\* (s *Session) CreateWindow, given the pid the new PTY process would get.
CreateWindow(s, pid) ==
    LET nextID == Len(s.Windows)
    IN  IF nextID >= MaxWindows
        THEN Returned(s, "maximum number of windows (36) reached", FALSE, {})
        ELSE Returned([s EXCEPT !.Windows = Append(@, NewWindow(nextID, StartedPTY(pid))),
                                !.LastWindow = s.CurrentWindow,
                                !.CurrentWindow = nextID],
                      "", TRUE, {})

\* (s *Session) SwitchToWindow(number)
SwitchToWindow(s, number) ==
    LET id == windowStringToNumber(number)
        found == {i \in 1..Len(s.Windows) : s.Windows[i].ID = id}
    IN  IF id < 0 THEN Returned(s, "invalid window number", FALSE, {})
        ELSE IF found = {} THEN Returned(s, "window not found", FALSE, {})
        ELSE LET foundIdx == (CHOOSE i \in found : \A j \in found : i <= j) - 1
             IN  Returned([s EXCEPT !.LastWindow = s.CurrentWindow,
                                    !.CurrentWindow = foundIdx],
                          "", FALSE, {})

\* (s *Session) NextWindow()
NextWindow(s) ==
    IF Len(s.Windows) = 0 THEN Returned(s, "", FALSE, {})
    ELSE Returned([s EXCEPT !.LastWindow = s.CurrentWindow,
                            !.CurrentWindow = (s.CurrentWindow + 1) % Len(s.Windows)],
                  "", FALSE, {})

\* (s *Session) PrevWindow()
PrevWindow(s) ==
    IF Len(s.Windows) = 0 THEN Returned(s, "", FALSE, {})
    ELSE Returned([s EXCEPT !.LastWindow = s.CurrentWindow,
                            !.CurrentWindow =
                                (s.CurrentWindow + Len(s.Windows) - 1) % Len(s.Windows)],
                  "", FALSE, {})

\* (s *Session) ToggleLastWindow()
ToggleLastWindow(s) ==
    IF Len(s.Windows) = 0 THEN Returned(s, "", FALSE, {})
    ELSE Returned([s EXCEPT !.CurrentWindow = s.LastWindow,
                            !.LastWindow = s.CurrentWindow],
                  "", FALSE, {})

\* KillCurrentWindow, after the guards: the window's process is killed, the
\* window is removed, the rest are renumbered and both indices are clamped.
Renumbered(windows) ==
    [i \in 1..Len(windows) |->
        [windows[i] EXCEPT !.ID = i - 1, !.Number = windowNumberToString(i - 1)]]

Clamp(idx, len) == IF idx >= len THEN len - 1 ELSE idx

RemoveCurrentWindow(s) ==
    LET win == s.Windows[s.CurrentWindow + 1]
        rest == SubSeq(s.Windows, 1, s.CurrentWindow)
                    \o SubSeq(s.Windows, s.CurrentWindow + 2, Len(s.Windows))
    IN  Returned([s EXCEPT !.Windows = Renumbered(rest),
                           !.CurrentWindow = Clamp(s.CurrentWindow, Len(rest)),
                           !.LastWindow = Clamp(s.LastWindow, Len(rest))],
                 "", FALSE, KillTargets(win.PTYProcess))

\* KillCurrentWindow: whether the session is down to its last window.
IsLastWindow_Never(s) == Len(s.Windows) = 0

IsLastWindow(s) == Len(s.Windows) = 1

\* (s *Session) KillCurrentWindow(). Kill on a started process that nothing
\* has waited for returns no error.
KillCurrentWindow(s) ==
    IF Len(s.Windows) = 0 \/ s.CurrentWindow < 0 \/ s.CurrentWindow >= Len(s.Windows)
    THEN Returned(s, "no current window", FALSE, {})
    ELSE IF IsLastWindow(s)
    THEN Returned(s, "cannot kill the last window", FALSE, {})
    ELSE RemoveCurrentWindow(s)

\* (s *Session) SetWindowTitle(title)
SetWindowTitle(s, title) ==
    IF Len(s.Windows) > 0 /\ s.CurrentWindow < Len(s.Windows)
    THEN Returned([s EXCEPT !.Windows[s.CurrentWindow + 1].Title = title], "", FALSE, {})
    ELSE Returned(s, "", FALSE, {})

\* The effect of a mutator's return on the process and on the operating
\* system: the session object is updated in place, a started PTY process
\* is a new child, a killed pid is terminated.
Apply(id, op, r) ==
    /\ sessions' = [sessions EXCEPT ![id] = r.sess]
    /\ children' =
         LET after == [pid \in 1..Len(children) |->
                          IF pid \in r.killed
                          THEN Terminated(children[pid], "SIGKILL")
                          ELSE children[pid]]
         IN  IF r.started THEN Append(after, Spawned(Len(children) + 1)) ELSE after
    /\ masterFds' = IF r.started THEN Append(masterFds, {"sgreen"}) ELSE masterFds
    /\ result' = [op |-> op, err |-> r.err]

-----------------------------------------------------------------------------
(* The window mutators called one after another on a new session *)

\* The window numbers asked for: "0", "A", "a", "10" and "".
WindowNumbers == {<<48>>, <<65>>, <<97>>, <<49, 48>>, <<>>}

CallCreateWindow(id) ==
    /\ Len(children) < MaxWindowSpawn
    /\ Apply(id, "CreateWindow", CreateWindow(sessions[id], Len(children) + 1))
    /\ UNCHANGED <<disk, tmp, corrupted, proc, loop>>
    /\ UNCHANGED uiVars

CallKillCurrentWindow(id) ==
    /\ Apply(id, "KillCurrentWindow", KillCurrentWindow(sessions[id]))
    /\ UNCHANGED <<disk, tmp, corrupted, proc, loop>>
    /\ UNCHANGED uiVars

CallNextWindow(id) ==
    /\ Apply(id, "NextWindow", NextWindow(sessions[id]))
    /\ UNCHANGED <<disk, tmp, corrupted, proc, loop>>
    /\ UNCHANGED uiVars

CallPrevWindow(id) ==
    /\ Apply(id, "PrevWindow", PrevWindow(sessions[id]))
    /\ UNCHANGED <<disk, tmp, corrupted, proc, loop>>
    /\ UNCHANGED uiVars

CallToggleLastWindow(id) ==
    /\ Apply(id, "ToggleLastWindow", ToggleLastWindow(sessions[id]))
    /\ UNCHANGED <<disk, tmp, corrupted, proc, loop>>
    /\ UNCHANGED uiVars

CallSwitchToWindow(id, number) ==
    /\ Apply(id, "SwitchToWindow", SwitchToWindow(sessions[id], number))
    /\ UNCHANGED <<disk, tmp, corrupted, proc, loop>>
    /\ UNCHANGED uiVars

\* The persisted form of a session: json.MarshalIndent leaves out the
\* PTYProcess fields (json:"-").
Persisted(s) ==
    [missing       |-> FALSE,
     parses        |-> TRUE,
     ID            |-> s.ID,
     Pid           |-> s.Pid,
     PtsPath       |-> s.PtsPath,
     Windows       |-> [i \in 1..Len(s.Windows) |->
                          [ID      |-> s.Windows[i].ID,
                           Number  |-> s.Windows[i].Number,
                           Title   |-> s.Windows[i].Title,
                           Pid     |-> s.Windows[i].Pid,
                           PtsPath |-> s.Windows[i].PtsPath]],
     CurrentWindow |-> s.CurrentWindow,
     LastWindow    |-> s.LastWindow]

\* No record file under that name.
NoFile == [missing |-> TRUE]

\* A detachReader nobody has typed into.
DecoderIdle ==
    /\ dr = newDetachReaderWithConfig([commandChar |-> 1, literalChar |-> 97,
                                       bindings |-> <<>>])
    /\ fed = NoBytes
    /\ passed = NoBytes
    /\ readErr = NoError

\* The state NewWithConfig(id) leaves when nothing existed before: the first
\* child runs, the session is registered and its record is on disk.
WindowsInit ==
    /\ DecoderIdle
    /\ ScrollbackIdle
    /\ flow = <<>>
    /\ loop = NoLoop
    /\ sessions = [id \in SessionIDs |-> NewSession(id, StartedPTY(1))]
    /\ disk = [id \in SessionIDs |-> Persisted(NewSession(id, StartedPTY(1)))]
    /\ tmp = [id \in SessionIDs |-> NoFile]
    /\ corrupted = [id \in SessionIDs |-> NoFile]
    /\ children = <<Spawned(1)>>
    /\ masterFds = <<{"sgreen"}>>
    /\ proc = [pc |-> "calls", sess |-> "demo", err |-> ""]
    /\ result = [op |-> "NewWithConfig", err |-> ""]

WindowsNext ==
    \E id \in SessionIDs :
        \/ CallCreateWindow(id)
        \/ CallKillCurrentWindow(id)
        \/ CallNextWindow(id)
        \/ CallPrevWindow(id)
        \/ CallToggleLastWindow(id)
        \/ \E number \in WindowNumbers : CallSwitchToWindow(id, number)

SpecWindows == WindowsInit /\ [][WindowsNext]_vars

-----------------------------------------------------------------------------
(* cmd/sgreen: successive sgreen processes working on the session store *)

\* The most PTY processes started over the successive sgreen processes.
MaxSpawn == 3

\* pty.Reconnect(ptsPath): the slave path can be opened while some process
\* holds the master of that PTY; the handle has no command.
CanOpen(ptsPath) ==
    /\ ptsPath \in 1..Len(masterFds)
    /\ masterFds[ptsPath] # {}

Reconnect_NoFile(ptsPath) == NilPTY

Reconnect(ptsPath) == [nil |-> FALSE, Cmd |-> 0, Pty |-> "slave", PtsPath |-> ptsPath]

\* (s *Session) ReconnectPTY(): <<session, error>>. Only the session's own
\* handle is set.
ReconnectPTY(s) ==
    IF s.PtsPath = 0 THEN [sess |-> s, err |-> "no PTY path available"]
    ELSE IF ~CanOpen(s.PtsPath) THEN [sess |-> s, err |-> "failed to reconnect to PTY"]
    ELSE [sess |-> [s EXCEPT !.PTYProcess = Reconnect(s.PtsPath)], err |-> ""]

\* The bytes of a record file cut off after upto of its bytes, as a write
\* that did not finish leaves them: json.Unmarshal fails on them.
Prefix(rec, upto) == [missing |-> FALSE, parses |-> FALSE, of |-> rec, upto |-> upto]

\* The entries of the sessions directory: <<session name, extension>>.
DirNames ==
    {<<id, "json">> : id \in {i \in SessionIDs : ~disk[i].missing}}
        \cup {<<id, "json.tmp">> : id \in {i \in SessionIDs : ~tmp[i].missing}}
        \cup {<<id, "json.corrupted">> : id \in {i \in SessionIDs : ~corrupted[i].missing}}

\* loadFromDisk(id), its error: "" when ID.json is read and parsed and names
\* a session.
loadFromDiskErr(id) ==
    IF disk[id].missing THEN "session not found"
    ELSE IF ~disk[id].parses THEN "failed to parse session file"
    ELSE IF disk[id].ID = "" THEN "invalid session: missing ID"
    ELSE ""

\* loadFromDisk on each id of ids, its effect on the directory: the bytes
\* that do not parse are written to ID.json.corrupted.
BackedUp_Never(ids) == corrupted

BackedUp(ids) ==
    [id \in SessionIDs |->
        IF id \in ids /\ ~disk[id].missing /\ ~disk[id].parses THEN disk[id]
        ELSE corrupted[id]]

\* loadFromDisk, on a record that parses: the fields tagged json:"-" are nil,
\* and the ID is the one of the file name.
loadFromDisk(id) ==
    LET rec == disk[id]
    IN  [nil           |-> FALSE,
         ID            |-> id,
         Pid           |-> rec.Pid,
         PtsPath       |-> rec.PtsPath,
         Windows       |-> [i \in 1..Len(rec.Windows) |->
                              [ID         |-> rec.Windows[i].ID,
                               Number     |-> rec.Windows[i].Number,
                               Title      |-> rec.Windows[i].Title,
                               Pid        |-> rec.Windows[i].Pid,
                               PtsPath    |-> rec.Windows[i].PtsPath,
                               PTYProcess |-> NilPTY]],
         CurrentWindow |-> rec.CurrentWindow,
         LastWindow    |-> rec.LastWindow,
         PTYProcess    |-> NilPTY]

\* Load(id): <<session, error>>; the session is registered in the index.
Load(id) ==
    IF ~sessions[id].nil
    THEN LET sess == sessions[id]
         IN  IF ~sess.PTYProcess.nil /\ ~IsAlive(sess.PTYProcess) /\ sess.PtsPath # 0
             THEN [sess |-> ReconnectPTY(sess).sess, err |-> ""]
             ELSE [sess |-> sess, err |-> ""]
    ELSE IF loadFromDiskErr(id) # "" THEN [sess |-> NilSession, err |-> loadFromDiskErr(id)]
    ELSE LET sess == loadFromDisk(id)
         IN  IF sess.PtsPath # 0 /\ isProcessAlive(sess.Pid)
             THEN [sess |-> ReconnectPTY(sess).sess, err |-> ""]
             ELSE [sess |-> sess, err |-> ""]

\* List(), for one session: the one in the index (reconnected when its
\* handle is dead), else the one on disk (reconnected when a window's or
\* its own process is alive).
Listed(id) ==
    IF ~sessions[id].nil
    THEN LET sess == sessions[id]
         IN  IF /\ ~sess.PTYProcess.nil /\ ~IsAlive(sess.PTYProcess)
                /\ sess.PtsPath # 0 /\ isProcessAlive(sess.Pid)
             THEN ReconnectPTY(sess).sess
             ELSE sess
    ELSE LET sess == loadFromDisk(id)
             aliveWindow == \E i \in 1..Len(sess.Windows) :
                                /\ sess.Windows[i].PtsPath # 0
                                /\ isProcessAlive(sess.Windows[i].Pid)
         IN  IF aliveWindow \/ (sess.PtsPath # 0 /\ isProcessAlive(sess.Pid))
             THEN ReconnectPTY(sess).sess
             ELSE sess

\* loadAllFromDisk, the names it calls loadFromDisk with: the entries that
\* end in ".json", without that suffix.
RecordIDs == {name[1] : name \in {n \in DirNames : n[2] = "json"}}

\* List(): the sessions of the index and those of the record files that load.
List ==
    {Listed(id) : id \in {i \in SessionIDs : ~sessions[i].nil}
                          \cup {i \in RecordIDs : loadFromDiskErr(i) = ""}}

\* isSessionAttached(sess)
isSessionAttached(sess) ==
    ~sess.nil /\ ~GetPTYProcess(sess).nil /\ IsAlive(GetPTYProcess(sess))


\* (s *Session) ForceDetach()
ForceDetach(s) == [s EXCEPT !.PTYProcess = NilPTY]

\* startDetachKeeper(sess): the keeper process inherits the file of the
\* handle GetPTYProcess returns, and holds it for as long as it runs.
KeeperHolds_Nothing(p, fds) == fds

KeeperHolds(p, fds) ==
    IF p.nil \/ p.Pty # "master" THEN fds
    ELSE [fds EXCEPT ![p.PtsPath] = @ \cup {"keeper"}]

startDetachKeeper(s, fds) ==
    IF s.nil THEN fds ELSE KeeperHolds(GetPTYProcess(s), fds)

\* What the exit of the sgreen process does to the children in ch, whose
\* masters are held as in fds: its files are closed, a child whose master
\* nobody holds any more is hung up, the children are left to init, which
\* reaps the dead ones.
Orphaned(c) ==
    [c EXCEPT !.parent = "init",
              !.state = IF c.state = "zombie" THEN "reaped" ELSE c.state]

AfterExit(ch, fds) ==
    LET closed == [pid \in 1..Len(fds) |-> fds[pid] \ {"sgreen"}]
    IN  [children  |-> [pid \in 1..Len(ch) |->
                          IF closed[pid] = {}
                          THEN Terminated(Orphaned(ch[pid]), "SIGHUP")
                          ELSE Orphaned(ch[pid])],
         masterFds |-> closed]

\* No sgreen process runs; err is what the last one printed before exiting.
NoProcess(err) == [pc |-> "none", sess |-> "", err |-> err]

NoSessions == [id \in SessionIDs |-> NilSession]

\* The sgreen process exits: os.Exit, or the return of main. Its tasks end
\* with it.
Exit(ch, fds, err) ==
    /\ loop' = NoLoop
    /\ sessions' = NoSessions
    /\ children' = AfterExit(ch, fds).children
    /\ masterFds' = AfterExit(ch, fds).masterFds
    /\ proc' = NoProcess(err)

\* sessionHasAttachablePTY(sess): <<session, whether it has one>>; a session
\* without a live handle is reconnected by its slave path.
sessionHasAttachablePTY(s) ==
    IF s.nil THEN [sess |-> s, ok |-> FALSE]
    ELSE IF ~GetPTYProcess(s).nil /\ IsAlive(GetPTYProcess(s)) THEN [sess |-> s, ok |-> TRUE]
    ELSE IF s.PtsPath # 0 /\ ReconnectPTY(s).err = ""
    THEN [sess |-> ReconnectPTY(s).sess, ok |-> TRUE]
    ELSE [sess |-> s, ok |-> FALSE]

\* handleNew, up to its call of attachToSession: Load(id) first. A session
\* that loads and can be attached is attached to. When none loads,
\* NewWithConfig starts the command on a new PTY, registers the session and
\* writes its record. (A session that loads and cannot be attached makes
\* handleNew pick another name, which is outside SessionIDs.)
handleNew(id) ==
    /\ proc.pc = "none"
    /\ LET loaded == Load(id)
           existing == sessionHasAttachablePTY(loaded.sess)
           sess == NewSession(id, StartedPTY(Len(children) + 1))
       IN  IF loaded.err = ""
           THEN /\ existing.ok
                /\ sessions' = [sessions EXCEPT ![id] = existing.sess]
                /\ proc' = [pc |-> "selected", sess |-> id, err |-> ""]
                /\ result' = [op |-> "Load", err |-> ""]
                /\ UNCHANGED <<disk, tmp, children, masterFds>>
           ELSE /\ Len(children) < MaxSpawn
                /\ sessions' = [sessions EXCEPT ![id] = sess]
                /\ disk' = [disk EXCEPT ![id] = Persisted(sess)]
                /\ tmp' = [tmp EXCEPT ![id] = NoFile]
                /\ children' = Append(children, Spawned(Len(children) + 1))
                /\ masterFds' = Append(masterFds, {"sgreen"})
                /\ proc' = [pc |-> "created", sess |-> id, err |-> ""]
                /\ result' = [op |-> "NewWithConfig", err |-> ""]
    /\ corrupted' = BackedUp({id})
    /\ UNCHANGED <<loop, uiVars>>

\* handleNewDetached: NewWithConfig, startDetachKeeper, ForceDetach, return.
handleNewDetached(id) ==
    /\ proc.pc = "none"
    /\ Len(children) < MaxSpawn
    /\ sessions[id].nil
    /\ LET sess == NewSession(id, StartedPTY(Len(children) + 1))
           ch   == Append(children, Spawned(Len(children) + 1))
           fds  == startDetachKeeper(sess, Append(masterFds, {"sgreen"}))
       IN  /\ disk' = [disk EXCEPT ![id] = Persisted(sess)]
           /\ Exit(ch, fds, "")
    /\ tmp' = [tmp EXCEPT ![id] = NoFile]
    /\ result' = [op |-> "startDetachKeeper", err |-> ""]
    /\ UNCHANGED <<corrupted, uiVars>>

\* selectReattachSession for a named session: <<session, error message>>.
selectReattachSession(listed, id, multiuser) ==
    IF listed = {} THEN [sess |-> NilSession, err |-> "There is no screen to be resumed"]
    ELSE LET loaded == Load(id)
         IN  IF loaded.err # ""
             THEN [sess |-> NilSession, err |-> "There is no screen to be resumed"]
             ELSE IF ~multiuser /\ isSessionAttached(loaded.sess)
             THEN [sess |-> NilSession, err |-> "Session is attached; use -d -r or -x."]
             ELSE [sess |-> loaded.sess, err |-> ""]

\* handleReattachWithConfig, up to its call of attachToSession: List,
\* selectReattachSession (which calls Load), and exit 1 on an error message.
handleReattachWithConfig(id, multiuser) ==
    /\ proc.pc = "none"
    /\ LET sel == selectReattachSession(List, id, multiuser)
       IN  /\ result' = IF List = {} THEN [op |-> "List", err |-> ""]
                      ELSE [op |-> "Load", err |-> Load(id).err]
           /\ IF sel.err # ""
              THEN Exit(children, masterFds, sel.err)
              ELSE /\ sessions' = [sessions EXCEPT ![id] = sel.sess]
                   /\ proc' = [pc |-> "selected", sess |-> id, err |-> ""]
                   /\ UNCHANGED <<children, masterFds, loop>>
    /\ corrupted' = BackedUp(RecordIDs \cup {id})
    /\ UNCHANGED <<disk, tmp, uiVars>>


\* attachToSession, before AttachWithConfig: a session without a handle is
\* reconnected by its slave path. <<session, error message>>.
EnsurePTY(s) ==
    IF ~GetPTYProcess(s).nil THEN [sess |-> s, err |-> ""]
    ELSE IF s.PtsPath # 0 /\ ReconnectPTY(s).err = ""
    THEN [sess |-> ReconnectPTY(s).sess, err |-> ""]
    ELSE [sess |-> s, err |-> "session has no active PTY process"]

\* attachLoop, the head of an iteration: the current window and its handle
\* are resolved before the copy tasks are started. "" when they are.
ResolveWindow(s) ==
    IF GetCurrentWindow(s).ID < 0 THEN "no current window"
    ELSE IF GetCurrentWindow(s).PTYProcess.nil THEN "current window has no PTY process"
    ELSE ""

\* AttachWithConfig, down to the first iteration of attachLoop.
AttachWithConfig(s) ==
    IF GetPTYProcess(s).nil THEN "PTY process not available"
    ELSE ResolveWindow(s)

\* attachToSession(sess): the process ends up in the attach loop with the
\* copy tasks of the current window running, or prints an error and exits 1.
attachToSession(id) ==
    /\ proc.pc \in {"created", "selected"}
    /\ proc.sess = id
    /\ LET ensured == EnsurePTY(sessions[id])
           err == IF ensured.err # "" THEN ensured.err ELSE AttachWithConfig(ensured.sess)
       IN  /\ result' = [op |-> "AttachWithConfig", err |-> err]
           /\ IF err # ""
              THEN Exit(children, masterFds, err)
              ELSE /\ sessions' = [sessions EXCEPT ![id] = ensured.sess]
                   /\ proc' = [pc |-> "attached", sess |-> id, err |-> ""]
                   /\ UNCHANGED <<children, masterFds>>
                   /\ loop' = StartIteration(loop, GetCurrentWindow(ensured.sess))
    /\ UNCHANGED <<disk, tmp, corrupted, uiVars>>

\* attachLoop on an ErrWindowCommand: handleWindowCommand calls the mutator;
\* its error ends the loop and the process (exit 1), otherwise the loop goes
\* round and resolves the current window again.
WindowCommand(id, op, r) ==
    /\ proc.pc = "attached"
    /\ proc.sess = id
    /\ loop.iteration < MaxIterations
    /\ IF r.err # ""
       THEN /\ Exit(children, masterFds, r.err)
            /\ result' = [op |-> op, err |-> r.err]
       ELSE IF ResolveWindow(r.sess) # ""
       THEN /\ LET started == IF r.started
                              THEN [ch  |-> Append(children, Spawned(Len(children) + 1)),
                                    fds |-> Append(masterFds, {"sgreen"})]
                              ELSE [ch |-> children, fds |-> masterFds]
                   ch == [pid \in 1..Len(started.ch) |->
                            IF pid \in r.killed
                            THEN Terminated(started.ch[pid], "SIGKILL")
                            ELSE started.ch[pid]]
               IN  Exit(ch, started.fds, ResolveWindow(r.sess))
            /\ result' = [op |-> op, err |-> ""]
       ELSE /\ Apply(id, op, r)
            /\ UNCHANGED proc
            /\ loop' = StartIteration(InputEnded(loop), GetCurrentWindow(r.sess))
    /\ UNCHANGED <<disk, tmp, corrupted, uiVars>>

CommandCreateWindow(id) ==
    /\ Len(children) < MaxSpawn
    /\ WindowCommand(id, "CreateWindow", CreateWindow(sessions[id], Len(children) + 1))

CommandNextWindow(id) ==
    WindowCommand(id, "NextWindow", NextWindow(sessions[id]))

CommandKillCurrentWindow(id) ==
    WindowCommand(id, "KillCurrentWindow", KillCurrentWindow(sessions[id]))

\* attachLoop on ErrDetach, and attachToSession after it: OnDetach starts the
\* keeper, AttachWithConfig returns ErrDetach, the process returns from main.
Detach(id) ==
    /\ proc.pc = "attached"
    /\ proc.sess = id
    /\ Exit(children, startDetachKeeper(sessions[id], masterFds), "")
    /\ result' = [op |-> "startDetachKeeper", err |-> ""]
    /\ UNCHANGED <<disk, tmp, corrupted, uiVars>>

\* The command of a child ends by itself.
ChildExit(pid) ==
    /\ pid \in 1..Len(children)
    /\ children[pid].state = "running"
    /\ children' = [children EXCEPT ![pid] = Terminated(@, "exit")]
    /\ UNCHANGED <<sessions, disk, tmp, corrupted, masterFds, proc, result, loop, uiVars>>

\* What io.Copy from the master returns once the child has gone: nil where
\* the read ends with EOF, the error where it fails with EIO.
CopyErrors == {"", "EIO"}

\* attachLoop on outputDone, and attachToSession after it. err is what the
\* output task sent: copyWithFlowControl returns nil on io.EOF, so the end
\* of the stream arrives as "" and the branch for io.EOF is never taken.
\* <<what the loop does, the error it returns>>.
OutputDone(s, err) ==
    IF err = "" THEN [do |-> "return", err |-> ""]
    ELSE IF /\ GetCurrentWindow(s).ID >= 0
            /\ ~GetCurrentWindow(s).PTYProcess.nil
            /\ ~IsAlive(GetCurrentWindow(s).PTYProcess)
    THEN IF Len(s.Windows) > 1 THEN [do |-> "continue", err |-> ""]
         ELSE [do |-> "return", err |-> ""]
    ELSE [do |-> "return", err |-> "output error"]

CopyOutputDone(id, err) ==
    /\ proc.pc = "attached"
    /\ proc.sess = id
    /\ LET win == GetCurrentWindow(sessions[id])
       IN  /\ win.PTYProcess.Cmd # 0
           /\ children[win.PTYProcess.Cmd].state # "running"
    /\ LET out == OutputDone(sessions[id], err)
       IN  /\ out.do = "continue" => loop.iteration < MaxIterations
           /\ result' = [op |-> "outputDone", err |-> out.err, read |-> err]
           /\ IF out.do = "continue"
              THEN /\ sessions' = [sessions EXCEPT ![id] = NextWindow(@).sess]
                   /\ UNCHANGED <<children, masterFds, proc>>
                   /\ loop' = StartIteration(ReadEnded(loop, GetCurrentWindow(sessions[id]).PTYProcess.PtsPath),
                                           GetCurrentWindow(NextWindow(sessions[id]).sess))
              ELSE IF out.err = ""
              THEN Exit(children, startDetachKeeper(sessions[id], masterFds), "")
              ELSE Exit(children, masterFds, out.err)
    /\ UNCHANGED <<disk, tmp, corrupted, uiVars>>

\* Delete(id): its error, the pids its Kill calls signal, the index and the
\* record files after it.
Delete(id) ==
    IF sessions[id].nil
    THEN [err |-> "session not found", killed |-> {}, sessions |-> sessions, disk |-> disk]
    ELSE LET sess == sessions[id]
         IN  [err      |-> "",
              killed   |-> UNION {KillTargets(sess.Windows[i].PTYProcess) :
                                    i \in 1..Len(sess.Windows)}
                             \cup KillTargets(sess.PTYProcess),
              sessions |-> [sessions EXCEPT ![id] = NilSession],
              disk     |-> [disk EXCEPT ![id] = NoFile]]

\* The commands sent with -X: one that quits, one that does nothing, one
\* that is unknown.
Commands == {"quit", "detach", "bogus"}

\* ExecuteCommand(sess, command), as Delete.
ExecuteCommand(sess, command) ==
    IF command \in {"quit", "exit"}
    THEN [Delete(sess.ID) EXCEPT !.killed = @ \cup KillTargets(sess.PTYProcess)]
    ELSE [err      |-> IF command \in {"detach", "log"} THEN "" ELSE "unknown command",
          killed   |-> {},
          sessions |-> sessions,
          disk     |-> disk]

\* The children after the pids of killed have received SIGKILL.
Killed(ch, killed) ==
    [pid \in 1..Len(ch) |->
        IF pid \in killed THEN Terminated(ch[pid], "SIGKILL") ELSE ch[pid]]

\* handleSendCommand(id, command), its call of Load.
sendCommandLoad(id) ==
    /\ proc.pc = "none"
    /\ LET loaded == Load(id)
       IN  /\ result' = [op |-> "Load", err |-> loaded.err]
           /\ IF loaded.err # ""
              THEN /\ proc' = [pc |-> "failed", sess |-> id, err |-> loaded.err]
                   /\ UNCHANGED sessions
              ELSE /\ proc' = [pc |-> "loaded", sess |-> id, err |-> ""]
                   /\ sessions' = [sessions EXCEPT ![id] = loaded.sess]
    /\ corrupted' = BackedUp({id})
    /\ UNCHANGED <<disk, tmp, children, masterFds, loop, uiVars>>

\* handleSendCommand after Load has failed: the message and exit 1.
sendCommandFail ==
    /\ proc.pc = "failed"
    /\ Exit(children, masterFds, "No screen session found.")
    /\ UNCHANGED <<disk, tmp, corrupted, result, uiVars>>

\* A caller that holds a loaded session calls Load(id) once more.
LoadAgain(id) ==
    /\ proc.pc = "loaded"
    /\ proc.sess = id
    /\ LET loaded == Load(id)
       IN  /\ result' = [op |-> "LoadAgain", err |-> loaded.err]
           /\ sessions' = IF loaded.err = "" THEN [sessions EXCEPT ![id] = loaded.sess]
                          ELSE sessions
    /\ UNCHANGED <<disk, tmp, corrupted, children, masterFds, proc, loop, uiVars>>

\* handleSendCommand after Load: ExecuteCommand, and the process ends.
sendCommandExecute(id, command) ==
    /\ proc.pc = "loaded"
    /\ proc.sess = id
    /\ LET r == ExecuteCommand(sessions[id], command)
       IN  /\ result' = [op  |-> IF command = "quit" THEN "Delete" ELSE "ExecuteCommand",
                         err |-> r.err]
           /\ disk' = r.disk
           /\ Exit(Killed(children, r.killed), masterFds,
                   IF r.err # "" THEN "Error executing command" ELSE "")
    /\ UNCHANGED <<tmp, corrupted, uiVars>>

\* CleanupOrphanedProcesses, for the session of record id that is not in the
\* index: the pids that are signalled with SIGKILL.
OrphanPids(id) ==
    LET sess == loadFromDisk(id)
    IN  {sess.Windows[i].Pid : i \in {j \in 1..Len(sess.Windows) :
                                        /\ sess.Windows[j].PtsPath # 0
                                        /\ isProcessAlive(sess.Windows[j].Pid)}}
            \cup (IF sess.PtsPath # 0 /\ isProcessAlive(sess.Pid) THEN {sess.Pid} ELSE {})

\* The records CleanupOrphanedProcesses looks at: those that load and are
\* not in the index.
OrphanRecords == {id \in RecordIDs : loadFromDiskErr(id) = "" /\ sessions[id].nil}

\* handleWipe, its call of CleanupOrphanedProcesses: every process found
\* alive is killed, the record of a session without one is removed.
wipeCleanup ==
    /\ proc.pc = "none"
    /\ children' = Killed(children, UNION {OrphanPids(id) : id \in OrphanRecords})
    /\ disk' = [id \in SessionIDs |->
                  IF id \in OrphanRecords /\ OrphanPids(id) = {} THEN NoFile ELSE disk[id]]
    /\ corrupted' = BackedUp(RecordIDs)
    /\ proc' = [pc |-> "wiping", sess |-> "", err |-> ""]
    /\ result' = [op |-> "CleanupOrphanedProcesses", err |-> ""]
    /\ UNCHANGED <<sessions, tmp, masterFds, loop, uiVars>>

\* handleWipe, its test of a listed session.
isDead(sess) ==
    IF Len(sess.Windows) > 0
    THEN \A i \in 1..Len(sess.Windows) :
            /\ ~(~sess.Windows[i].PTYProcess.nil /\ IsAlive(sess.Windows[i].PTYProcess))
            /\ ~(sess.Windows[i].PtsPath # 0 /\ ReconnectPTY(sess).err = "")
    ELSE /\ ~isProcessAlive(sess.Pid)
         /\ (sess.PtsPath = 0 \/ ReconnectPTY(sess).err # "")

\* handleWipe after the cleanup: List, Delete for each session found dead,
\* and the process ends. Delete tells "not found" for a session that is
\* not in the index.
wipeList ==
    /\ proc.pc = "wiping"
    /\ LET dead == {sess.ID : sess \in {l \in List : isDead(l)}}
           removed == {id \in dead : Delete(id).err = ""}
       IN  /\ disk' = [id \in SessionIDs |-> IF id \in removed THEN NoFile ELSE disk[id]]
           /\ Exit(Killed(children, UNION {Delete(id).killed : id \in removed}), masterFds,
                   IF List = {} THEN "No Sockets found"
                   ELSE IF removed # {} THEN "" ELSE "No dead sessions found")
           /\ result' = [op |-> "handleWipe", err |-> ""]
    /\ corrupted' = BackedUp(RecordIDs)
    /\ UNCHANGED <<tmp, uiVars>>

\* Nothing exists: no record, no child, no sgreen process.
Init ==
    /\ DecoderIdle
    /\ ScrollbackIdle
    /\ flow = <<>>
    /\ loop = NoLoop
    /\ sessions = NoSessions
    /\ disk = [id \in SessionIDs |-> NoFile]
    /\ tmp = [id \in SessionIDs |-> NoFile]
    /\ corrupted = [id \in SessionIDs |-> NoFile]
    /\ children = <<>>
    /\ masterFds = <<>>
    /\ proc = NoProcess("")
    /\ result = [op |-> "none", err |-> ""]

Next ==
    \/ \E id \in SessionIDs :
        \/ handleNew(id)
        \/ handleNewDetached(id)
        \/ \E multiuser \in BOOLEAN : handleReattachWithConfig(id, multiuser)
        \/ attachToSession(id)
        \/ CommandCreateWindow(id)
        \/ CommandNextWindow(id)
        \/ CommandKillCurrentWindow(id)
        \/ Detach(id)
        \/ \E err \in CopyErrors : CopyOutputDone(id, err)
        \/ sendCommandLoad(id)
        \/ LoadAgain(id)
        \/ \E command \in Commands : sendCommandExecute(id, command)
    \/ sendCommandFail
    \/ wipeCleanup
    \/ wipeList
    \/ \E pid \in 1..MaxSpawn : ChildExit(pid)

Spec == Init /\ [][Next]_vars

-----------------------------------------------------------------------------
(* save, step by step, in processes that may be killed at any step *)

\* The window titles given with -t.
Titles == {<<116>>, <<117>>}

\* The length of a record, in the pieces a write of it may stop after.
RecordLen == 2

\* save(), json.MarshalIndent done: the process is about to write the bytes
\* of data; before is the target file as save found it, next the position of
\* the caller after save.
Marshalled(s, next) ==
    [pc |-> "save", sess |-> s.ID, err |-> "", step |-> "marshalled",
     data |-> Persisted(s), before |-> disk[s.ID], next |-> next]

\* os.WriteFile(tmpPath, ...) after it has written content: the files of
\* the directory.
WriteFileTmp_InPlace(id, content) ==
    [disk |-> [disk EXCEPT ![id] = content], tmp |-> tmp]

WriteFileTmp(id, content) ==
    [disk |-> disk, tmp |-> [tmp EXCEPT ![id] = content]]

\* os.Rename(tmpPath, filePath): the files of the directory, and whether it
\* fails (there is no temporary file).
RenameTmp(id) ==
    IF tmp[id].missing THEN [disk |-> disk, tmp |-> tmp, err |-> "failed to rename session file"]
    ELSE [disk |-> [disk EXCEPT ![id] = tmp[id]],
          tmp  |-> [tmp EXCEPT ![id] = NoFile],
          err  |-> ""]

\* NewWithConfig down to its call of save: the child is started and the
\* session registered.
newWithConfig(id) ==
    /\ proc.pc = "none"
    /\ Len(children) < MaxSpawn
    /\ sessions[id].nil
    /\ LET sess == NewSession(id, StartedPTY(Len(children) + 1))
       IN  /\ sessions' = [sessions EXCEPT ![id] = sess]
           /\ proc' = Marshalled(sess, "created")
    /\ children' = Append(children, Spawned(Len(children) + 1))
    /\ masterFds' = Append(masterFds, {"sgreen"})
    /\ result' = [op |-> "NewWithConfig", err |-> ""]
    /\ UNCHANGED <<disk, tmp, corrupted, loop, uiVars>>

\* os.WriteFile opens the temporary file and truncates it.
saveOpen(id) ==
    /\ proc.pc = "save"
    /\ proc.sess = id
    /\ proc.step = "marshalled"
    /\ disk' = WriteFileTmp(id, Prefix(proc.data, 0)).disk
    /\ tmp' = WriteFileTmp(id, Prefix(proc.data, 0)).tmp
    /\ proc' = [proc EXCEPT !.step = "opened"]
    /\ UNCHANGED <<sessions, corrupted, children, masterFds, result, loop, uiVars>>

\* os.WriteFile writes: the file holds the first upto pieces of the bytes,
\* all of them when upto is RecordLen.
saveWrite(id, upto) ==
    /\ proc.pc = "save"
    /\ proc.sess = id
    /\ proc.step \in {"opened", "partial"}
    /\ LET content == IF upto = RecordLen THEN proc.data ELSE Prefix(proc.data, upto)
       IN  /\ disk' = WriteFileTmp(id, content).disk
           /\ tmp' = WriteFileTmp(id, content).tmp
    /\ proc' = [proc EXCEPT !.step = IF upto = RecordLen THEN "written" ELSE "partial"]
    /\ UNCHANGED <<sessions, corrupted, children, masterFds, result, loop, uiVars>>

\* os.Rename, and save returns to its caller.
saveRename(id) ==
    /\ proc.pc = "save"
    /\ proc.sess = id
    /\ proc.step = "written"
    /\ disk' = RenameTmp(id).disk
    /\ tmp' = RenameTmp(id).tmp
    /\ proc' = [pc |-> proc.next, sess |-> id, err |-> ""]
    /\ result' = [op |-> "save", err |-> RenameTmp(id).err]
    /\ UNCHANGED <<sessions, corrupted, children, masterFds, loop, uiVars>>

\* applyWindowTitle(sess, config) with a title, down to the call of save.
applyWindowTitle(id, title) ==
    /\ proc.pc = "created"
    /\ proc.sess = id
    /\ GetCurrentWindow(sessions[id]).ID >= 0
    /\ LET sess == SetWindowTitle(sessions[id], title).sess
       IN  /\ sessions' = [sessions EXCEPT ![id] = sess]
           /\ proc' = Marshalled(sess, "titled")
    /\ result' = [op |-> "applyWindowTitle", err |-> ""]
    /\ UNCHANGED <<disk, tmp, corrupted, children, masterFds, loop, uiVars>>

\* handleNewDetached after the session is made: startDetachKeeper,
\* ForceDetach, return.
detachNew(id) ==
    /\ proc.pc \in {"created", "titled"}
    /\ proc.sess = id
    /\ Exit(children, startDetachKeeper(sessions[id], masterFds), "")
    /\ result' = [op |-> "startDetachKeeper", err |-> ""]
    /\ UNCHANGED <<disk, tmp, corrupted, uiVars>>

\* The sgreen process is killed: nothing of it runs any more, the files
\* stay as they are. The result keeps the position it was killed at.
Crash ==
    /\ proc.pc # "none"
    /\ Exit(children, masterFds, "killed")
    /\ result' = [op |-> "crash", err |-> "", at |-> proc]
    /\ UNCHANGED <<disk, tmp, corrupted, uiVars>>

\* A record file that was not written by save: bytes that do not parse, or
\* a JSON object without an ID.
Foreign == {Prefix(NoFile, 0), [missing |-> FALSE, parses |-> TRUE, ID |-> ""]}

\* No sgreen process runs, no child either; the directory holds no file, or
\* a record file that some other program left.
FilesInit ==
    /\ DecoderIdle
    /\ ScrollbackIdle
    /\ flow = <<>>
    /\ loop = NoLoop
    /\ sessions = NoSessions
    /\ \E file \in {NoFile} \cup Foreign : disk = [id \in SessionIDs |-> file]
    /\ tmp = [id \in SessionIDs |-> NoFile]
    /\ corrupted = [id \in SessionIDs |-> NoFile]
    /\ children = <<>>
    /\ masterFds = <<>>
    /\ proc = NoProcess("")
    /\ result = [op |-> "none", err |-> ""]

FilesNext ==
    \/ \E id \in SessionIDs :
        \/ newWithConfig(id)
        \/ saveOpen(id)
        \/ \E upto \in 1..RecordLen : saveWrite(id, upto)
        \/ saveRename(id)
        \/ \E title \in Titles : applyWindowTitle(id, title)
        \/ detachNew(id)
        \/ sendCommandLoad(id)
        \/ LoadAgain(id)
        \/ \E command \in Commands : sendCommandExecute(id, command)
    \/ sendCommandFail
    \/ Crash

SpecFiles == FilesInit /\ [][FilesNext]_vars

-----------------------------------------------------------------------------
(* One attach session step by step: the cases of the select of attachLoop,
   the detach hook, the wait for the keeper and the return of main *)

\* The signals attachLoop takes from termChan.
TermSignals == {"SIGTERM", "SIGINT"}

\* The cases of the select that detach: the hangup signal and the detach key.
DetachCases == {"hupChan", "inputDone"}

\* attachLoop on hupChan: whether config.OnDetach is called (attachToSession
\* always sets it), and what the loop returns.
OnHangup_NoHook == [hook |-> FALSE, ret |-> "ErrDetach"]

OnHangup == [hook |-> TRUE, ret |-> "ErrDetach"]

\* attachLoop on inputDone with ErrDetach.
OnInputDetach == [hook |-> TRUE, ret |-> "ErrDetach"]

\* The onDetach closure of attachToSession, called with the task accounting
\* l: <<the accounting after the call, whether startDetachKeeper is called>>.
onDetach_NoFlag(l) ==
    [loop  |-> [l EXCEPT !.calls = @ + 1, !.hooks = @ + 1, !.startedKeeper = TRUE],
     start |-> TRUE]

onDetach(l) ==
    IF l.startedKeeper
    THEN [loop |-> [l EXCEPT !.calls = @ + 1], start |-> FALSE]
    ELSE [loop  |-> [l EXCEPT !.calls = @ + 1, !.hooks = @ + 1, !.startedKeeper = TRUE],
          start |-> TRUE]

\* startDetachKeeper(sess) down to cmd.Start: whether a keeper runs that
\* waitForKeeperReady waits for. started: os.Executable, os.Pipe and
\* cmd.Start have all succeeded.
KeeperStarted(s, started) ==
    /\ ~s.nil
    /\ ~GetPTYProcess(s).nil
    /\ GetPTYProcess(s).Pty # "nil"
    /\ started

\* A call of the hook: with a keeper started the process waits for its
\* readiness byte at position wait, otherwise it goes on at position after.
CallHook(id, started, wait, after) ==
    LET h     == onDetach(loop)
        waits == h.start /\ KeeperStarted(sessions[id], started)
    IN  /\ loop' = h.loop
        /\ masterFds' = IF waits THEN startDetachKeeper(sessions[id], masterFds)
                        ELSE masterFds
        /\ proc' = [proc EXCEPT !.pc = IF waits THEN wait ELSE after]

\* What a detaching case c of the select does to the process: the hook when
\* c calls it, then the return of the loop.
DetachCase(id, c, started) ==
    IF c.hook
    THEN CallHook(id, started, "waitingInLoop", "returned")
    ELSE /\ proc' = [proc EXCEPT !.pc = "returned"]
         /\ UNCHANGED <<loop, masterFds>>

\* attachLoop on hupChan or on inputDone with ErrDetach, up to the wait for
\* the keeper or to the return of AttachWithConfig.
loopDetach(id, case, started) ==
    /\ proc.pc = "attached"
    /\ proc.sess = id
    /\ LET c == IF case = "hupChan" THEN OnHangup ELSE OnInputDetach
       IN  /\ DetachCase(id, c, started)
           /\ result' = [op |-> case, err |-> c.ret]
    /\ UNCHANGED <<sessions, children, disk, tmp, corrupted, uiVars>>

\* Whether waitForKeeperReady sets a deadline on its read.
SetReadDeadline_None == FALSE

SetReadDeadline == TRUE

\* waitForKeeperReady: the read returns, with the byte of the keeper or at
\* the end of the pipe.
keeperAnswered(id) ==
    /\ proc.pc \in {"waitingInLoop", "waitingInCaller"}
    /\ proc.sess = id
    /\ proc' = [proc EXCEPT !.pc = IF @ = "waitingInLoop" THEN "returned" ELSE "done"]
    /\ result' = [op |-> "waitForKeeperReady", err |-> ""]
    /\ UNCHANGED <<sessions, children, masterFds, loop, disk, tmp, corrupted, uiVars>>

\* waitForKeeperReady: the deadline of 500 ms passes before the read returns.
keeperTimeout(id) ==
    /\ SetReadDeadline
    /\ proc.pc \in {"waitingInLoop", "waitingInCaller"}
    /\ proc.sess = id
    /\ proc' = [proc EXCEPT !.pc = IF @ = "waitingInLoop" THEN "returned" ELSE "done"]
    /\ result' = [op |-> "waitForKeeperReady", err |-> "i/o timeout"]
    /\ UNCHANGED <<sessions, children, masterFds, loop, disk, tmp, corrupted, uiVars>>

\* attachToSession after AttachWithConfig has returned nil or ErrDetach: it
\* calls onDetach(sess) itself.
callerOnDetach(id, started) ==
    /\ proc.pc = "returned"
    /\ proc.sess = id
    /\ CallHook(id, started, "waitingInCaller", "done")
    /\ result' = [op |-> "onDetach", err |-> ""]
    /\ UNCHANGED <<sessions, children, disk, tmp, corrupted, uiVars>>

\* attachToSession and main return: the process exits with status 0.
mainReturn(id) ==
    /\ proc.pc = "done"
    /\ proc.sess = id
    /\ Exit(children, masterFds, "")
    /\ result' = [op |-> "return", err |-> ""]
    /\ UNCHANGED <<disk, tmp, corrupted, uiVars>>

\* attachLoop on outputDone: the next window, the return of nil to
\* attachToSession, or the error that makes it exit 1.
loopOutputDone(id, err) ==
    /\ proc.pc = "attached"
    /\ proc.sess = id
    /\ LET win == GetCurrentWindow(sessions[id])
       IN  /\ win.PTYProcess.Cmd # 0
           /\ children[win.PTYProcess.Cmd].state # "running"
    /\ LET out == OutputDone(sessions[id], err)
       IN  /\ out.do = "continue" => loop.iteration < MaxIterations
           /\ result' = [op |-> "outputDone", err |-> out.err, read |-> err]
           /\ IF out.do = "continue"
              THEN /\ sessions' = [sessions EXCEPT ![id] = NextWindow(@).sess]
                   /\ UNCHANGED <<children, masterFds, proc>>
                   /\ loop' = StartIteration(ReadEnded(loop, GetCurrentWindow(sessions[id]).PTYProcess.PtsPath),
                                           GetCurrentWindow(NextWindow(sessions[id]).sess))
              ELSE IF out.err = ""
              THEN /\ proc' = [proc EXCEPT !.pc = "returned"]
                   /\ UNCHANGED <<sessions, children, masterFds, loop>>
              ELSE Exit(children, masterFds, out.err)
    /\ UNCHANGED <<disk, tmp, corrupted, uiVars>>

\* attachLoop on termChan: the pids whose process is sent the signal, the
\* current window's first and then every window's; a handle without a
\* command (Cmd == nil) is passed over.
TermTargets_CurrentOnly(s) == KillTargets(GetCurrentWindow(s).PTYProcess)

TermTargets(s) ==
    KillTargets(GetCurrentWindow(s).PTYProcess)
        \cup UNION {KillTargets(s.Windows[i].PTYProcess) : i \in 1..Len(s.Windows)}

\* attachLoop on termChan, and attachToSession after it: the signal is sent,
\* the loop returns "terminated by signal", the process exits 1. The
\* commands in dying end on the signal, the others handle or ignore it.
termSignal(id, sig) ==
    /\ proc.pc = "attached"
    /\ proc.sess = id
    /\ \E dying \in SUBSET TermTargets(sessions[id]) :
          Exit([pid \in 1..Len(children) |->
                   IF pid \in dying THEN Terminated(children[pid], sig)
                   ELSE children[pid]],
               masterFds, "terminated by signal")
    /\ result' = [op |-> "termChan", err |-> "terminated by signal", sig |-> sig,
                  signalled |-> TermTargets(sessions[id])]
    /\ UNCHANGED <<disk, tmp, corrupted, uiVars>>

AttachNext ==
    \/ \E id \in SessionIDs :
        \/ handleNew(id)
        \/ attachToSession(id)
        \/ CommandCreateWindow(id)
        \/ CommandNextWindow(id)
        \/ CommandKillCurrentWindow(id)
        \/ \E case \in DetachCases, started \in BOOLEAN : loopDetach(id, case, started)
        \/ keeperAnswered(id)
        \/ keeperTimeout(id)
        \/ \E started \in BOOLEAN : callerOnDetach(id, started)
        \/ mainReturn(id)
        \/ \E err \in CopyErrors : loopOutputDone(id, err)
        \/ \E sig \in TermSignals : termSignal(id, sig)
    \/ \E pid \in 1..MaxSpawn : ChildExit(pid)

SpecAttach == Init /\ [][AttachNext]_vars

\* The same with the progress the code guarantees: the deadline of the read
\* passes, and the statements after a return are executed.
SpecAttachFair ==
    /\ SpecAttach
    /\ WF_vars(\E id \in SessionIDs : keeperTimeout(id))
    /\ WF_vars(\E id \in SessionIDs, started \in BOOLEAN : callerOnDetach(id, started))
    /\ WF_vars(\E id \in SessionIDs : mainReturn(id))

\* The same with the progress of the output task: the read of the master of
\* a window whose process has exited returns, the task sends what
\* copyWithFlowControl returned, and the select of the loop receives it.
SpecAttachLive ==
    SpecAttach /\ WF_vars(\E id \in SessionIDs, err \in CopyErrors : loopOutputDone(id, err))

-----------------------------------------------------------------------------
(* The choice of the session to reattach when no name is given *)

\* The most sessions List() returns.
MaxListed == 3

\* What the handlers ask of a listed session: isSessionAttached(sess) and
\* sessionHasAliveProcess(sess).
ListedKinds == [attached : BOOLEAN, alive : BOOLEAN]

\* The returns of session.List(): the session at index i is named i.
Listings == UNION {[1..n -> ListedKinds] : n \in 0..MaxListed}

\* The first index of a non-empty set of indices (element 0 of the slice).
First(S) == CHOOSE i \in S : \A j \in S : i <= j

\* The loop of selectReattachSession over the sessions: those not attached
\* whose process is alive.
Detached(l) == {i \in 1..Len(l) : ~l[i].attached /\ l[i].alive}

\* findDetachedSessions(sessions): handle nil or dead, process alive.
findDetachedSessions(l) == {i \in 1..Len(l) : ~l[i].attached /\ l[i].alive}

\* sessionListEntries(sessions): every session but the dead ones.
sessionListEntries(l) == {i \in 1..Len(l) : l[i].attached \/ l[i].alive}

\* selectReattachSession(sessions, "", multiuser, ...): <<session (0 for
\* nil), error message, printList>>.
selectReattachSessionNoName(l, multiuser) ==
    IF Len(l) = 0
    THEN [sess |-> 0,
          errMsg |-> IF multiuser THEN "There is no screen to be attached."
                     ELSE "There is no screen to be resumed.",
          printList |-> FALSE]
    ELSE IF multiuser
    THEN IF Len(l) = 1
         THEN [sess |-> 1, errMsg |-> "", printList |-> FALSE]
         ELSE [sess |-> 0,
               errMsg |-> "Multiple sessions found. Specify session name with -x:",
               printList |-> TRUE]
    ELSE IF Cardinality(Detached(l)) = 1
    THEN [sess |-> First(Detached(l)), errMsg |-> "", printList |-> FALSE]
    ELSE IF Cardinality(Detached(l)) > 1
    THEN [sess |-> 0, errMsg |-> "There are several detached sessions:", printList |-> TRUE]
    ELSE [sess |-> 0, errMsg |-> "There is no screen to be resumed.", printList |-> FALSE]

\* What a reattach entry point has done: whether -x was given, the session
\* it calls attachToSession with (0 for none), whether it calls handleNew, the error
\* message and the list it prints, and its exit status before any attach.
Outcome(op, multiuser, sess, created, errMsg, printed, exit) ==
    [op |-> op, multiuser |-> multiuser, sess |-> sess, created |-> created,
     err |-> errMsg, printed |-> printed, exit |-> exit]

\* handleReattachWithConfig("", config): -r and -x without a name.
callReattach(multiuser, quiet) ==
    /\ LET sel == selectReattachSessionNoName(sessions, multiuser)
           count == Cardinality(Detached(sessions))
       IN  result' =
             IF sel.errMsg = ""
             THEN Outcome("handleReattachWithConfig", multiuser, sel.sess, FALSE, "", {}, 0)
             ELSE IF quiet /\ ~multiuser /\ sel.errMsg = "There is no screen to be resumed."
             THEN Outcome("handleReattachWithConfig", multiuser, 0, FALSE, "", {}, 10)
             ELSE IF quiet /\ ~multiuser /\ sel.printList
             THEN Outcome("handleReattachWithConfig", multiuser, 0, FALSE, "", {},
                          10 + (IF count < 2 THEN 2 ELSE count))
             ELSE Outcome("handleReattachWithConfig", multiuser, 0, FALSE, sel.errMsg,
                          IF sel.printList THEN sessionListEntries(sessions) ELSE {}, 1)
    /\ UNCHANGED <<sessions, disk, tmp, corrupted, children, masterFds, proc, loop, uiVars>>

\* handleReattachOrCreate("", ...): -R without a name.
callReattachOrCreate ==
    /\ result' =
         IF Len(sessions) = 0
         THEN Outcome("handleReattachOrCreate", FALSE, 0, TRUE, "", {}, 0)
         ELSE IF findDetachedSessions(sessions) # {}
         THEN Outcome("handleReattachOrCreate", FALSE, First(findDetachedSessions(sessions)),
                      FALSE, "", {}, 0)
         ELSE Outcome("handleReattachOrCreate", FALSE, 1, FALSE, "", {}, 0)
    /\ UNCHANGED <<sessions, disk, tmp, corrupted, children, masterFds, proc, loop, uiVars>>

\* handleReattachOrCreateRR("", ...): -RR without a name.
callReattachOrCreateRR ==
    /\ result' =
         IF Len(sessions) = 0
         THEN Outcome("handleReattachOrCreateRR", FALSE, 0, TRUE, "", {}, 0)
         ELSE IF findDetachedSessions(sessions) # {}
         THEN Outcome("handleReattachOrCreateRR", FALSE, First(findDetachedSessions(sessions)),
                      FALSE, "", {}, 0)
         ELSE Outcome("handleReattachOrCreateRR", FALSE, 1, FALSE, "", {}, 0)
    /\ UNCHANGED <<sessions, disk, tmp, corrupted, children, masterFds, proc, loop, uiVars>>

\* sessions is what session.List() has returned to the entry point.
ReattachInit ==
    /\ sessions \in Listings
    /\ result = Outcome("none", FALSE, 0, FALSE, "", {}, 0)
    /\ dr = <<>>
    /\ fed = <<>>
    /\ passed = <<>>
    /\ readErr = <<>>
    /\ disk = <<>>
    /\ tmp = <<>>
    /\ corrupted = <<>>
    /\ children = <<>>
    /\ masterFds = <<>>
    /\ proc = <<>>
    /\ sb = <<>>
    /\ appended = <<>>
    /\ flow = <<>>
    /\ loop = <<>>

ReattachNext ==
    \/ \E multiuser \in BOOLEAN, quiet \in BOOLEAN : callReattach(multiuser, quiet)
    \/ callReattachOrCreate
    \/ callReattachOrCreateRR

SpecReattach == ReattachInit /\ [][ReattachNext]_vars

-----------------------------------------------------------------------------
(* The name of a session created without -S *)

\* The characters of the components: 'a', '1', '-', '_', '.', and ':' for
\* one that no name may hold.
NameChars == {97, 49, 45, 95, 46, 58}

\* The longest tty name and host name.
MaxComponent == 2

Components == UNION {[1..n -> NameChars] : n \in 0..MaxComponent}

\* The process ids of the sgreen process.
Pids == {7, 42}

\* isValidSessionChar(r)
isValidSessionChar(r) ==
    \/ r \in 97..122
    \/ r \in 65..90
    \/ r \in 48..57
    \/ r = 45
    \/ r = 95

\* strings.Trim(s, "-")
RECURSIVE TrimLeft(_)
TrimLeft(str) ==
    IF str # <<>> /\ Head(str) = 45 THEN TrimLeft(Tail(str)) ELSE str

RECURSIVE TrimRight(_)
TrimRight(str) ==
    IF str # <<>> /\ str[Len(str)] = 45
    THEN TrimRight(SubSeq(str, 1, Len(str) - 1))
    ELSE str

\* sanitizeSessionNameComponent(s): a character that is not a letter, a
\* digit, '-', '_' or '.' becomes '-'; dashes at both ends are cut off.
sanitizeSessionNameComponent(str) ==
    TrimRight(TrimLeft([i \in 1..Len(str) |->
                           IF isValidSessionChar(str[i]) \/ str[i] = 46
                           THEN str[i] ELSE 45]))

\* fmt.Sprintf("%d", n)
RECURSIVE Decimal(_)
Decimal(n) ==
    IF n < 10 THEN <<48 + n>> ELSE Append(Decimal(n \div 10), 48 + (n % 10))

\* "localhost"
localhost == <<108, 111, 99, 97, 108, 104, 111, 115, 116>>

\* defaultHostName(): os.Hostname(), "localhost" when it is empty.
defaultHostName(hostname) == IF hostname = <<>> THEN localhost ELSE hostname

\* defaultSessionName() in the process pid whose detectTTYName() is tty and
\* whose os.Hostname() is hostname: "<pid>.<tty>.<host>".
defaultSessionName(pid, tty, hostname) ==
    LET host == sanitizeSessionNameComponent(defaultHostName(hostname))
    IN  Decimal(pid) \o <<46>> \o sanitizeSessionNameComponent(tty) \o <<46>>
            \o (IF host = <<>> THEN localhost ELSE host)

\* NewWithConfig(id, ...), the validation of the name: its error.
ValidName(id) ==
    IF id = <<>> THEN "session name cannot be empty"
    ELSE IF \E i \in 1..Len(id) : ~isValidSessionChar(id[i])
    THEN "invalid session name: only alphanumeric characters, dash, and underscore allowed"
    ELSE ""

\* handleNew("", ...) and handleNewDetached("", ...) down to NewWithConfig:
\* the name is defaultSessionName(), no record of that name loads.
callNewNoName(op) ==
    /\ result.op = "none"
    /\ LET name == defaultSessionName(proc.pid, proc.tty, proc.hostname)
       IN  result' = [op |-> op, name |-> name, err |-> ValidName(name)]
    /\ UNCHANGED <<sessions, disk, tmp, corrupted, children, masterFds, proc, loop, uiVars>>

\* proc is the environment of the sgreen process that is started.
NamesInit ==
    /\ proc \in [pid : Pids, tty : Components, hostname : Components]
    /\ result = [op |-> "none", name |-> <<>>, err |-> ""]
    /\ dr = <<>>
    /\ fed = <<>>
    /\ passed = <<>>
    /\ readErr = <<>>
    /\ sessions = <<>>
    /\ disk = <<>>
    /\ tmp = <<>>
    /\ corrupted = <<>>
    /\ children = <<>>
    /\ masterFds = <<>>
    /\ sb = <<>>
    /\ appended = <<>>
    /\ flow = <<>>
    /\ loop = <<>>

NamesNext ==
    \E op \in {"handleNew", "handleNewDetached"} : callNewNoName(op)

SpecNames == NamesInit /\ [][NamesNext]_vars

-----------------------------------------------------------------------------
(* Calls of package session made at the same time by the tasks of one
   process: the lock of a session (s.mu), the lock of the index
   (sessionsMu), the index and the record files *)

\* The tasks (goroutines) that call the package, one call each.
Tasks == {1, 2}

\* The session names in play.
Names == {"a", "b", "c"}

\* The layout name given to SaveLayout and SelectLayout.
LayoutName == "l"

\* The session objects: 1 and 2 are registered as "a" and "b" when the
\* tasks start; NewObject(t) is the one task t makes.
NewObject(t) == 2 + t

Objects == 1..4

\* A sync.RWMutex: the task that holds it for writing (0: none) and those
\* that hold it for reading. Lock waits for the writer and the readers to
\* go, RLock for the writer.
Unlocked == [w |-> 0, r |-> {}]

CanLock(m) == m.w = 0 /\ m.r = {}

CanRLock(m) == m.w = 0

\* A *Session: its ID field, its lock, the state of s.PTYProcess ("alive",
\* "dead": its command has been waited for, "slave": reconnected, "nil")
\* and the names of its Layouts.
Unborn == [ID |-> "", mu |-> Unlocked, handle |-> "nil", Layouts |-> {}]

\* A file of the sessions directory: the ID its content carries, the task
\* that opened it last, and the tasks that have opened it with O_TRUNC and
\* have not written their data yet (none: the content is whole).
Written(id, t) == [missing |-> FALSE, ID |-> id, by |-> t, open |-> {}]

\* A task before its call.
NotCalled == [op |-> "none", pc |-> "idle", obj |-> 0, arg |-> "", path |-> "", err |-> ""]

TaskOf(t) == proc.task[t]

ObjectOf(t) == sessions.obj[TaskOf(t).obj]

\* The call of task t returns err ("" for nil).
Returns(t, err) == result' = [op |-> TaskOf(t).op, err |-> err, task |-> t]

Done(t, err) == [TaskOf(t) EXCEPT !.pc = "done", !.err = err]

\* AddUser(username) with a new name: the list is extended without a lock,
\* then save() is called.
callAddUser(t, o) ==
    /\ TaskOf(t).pc = "idle"
    /\ sessions.obj[o].ID # ""
    /\ proc' = [proc EXCEPT !.task[t] = [NotCalled EXCEPT !.op = "AddUser", !.pc = "save.RLock", !.obj = o]]
    /\ UNCHANGED <<sessions, disk, tmp, result>>
    /\ UNCHANGED <<corrupted, children, masterFds, loop, uiVars>>

\* SaveLayout(name), SelectLayout(name) with a name: up to s.mu.Lock().
callLayout(t, op, o) ==
    /\ TaskOf(t).pc = "idle"
    /\ sessions.obj[o].ID # ""
    /\ proc' = [proc EXCEPT !.task[t] = [NotCalled EXCEPT !.op = op, !.pc = "layout.Lock", !.obj = o,
                                                   !.arg = LayoutName]]
    /\ UNCHANGED <<sessions, disk, tmp, result>>
    /\ UNCHANGED <<corrupted, children, masterFds, loop, uiVars>>

\* Load(id), Rename(newID) and NewWithConfig(id, ...) with a valid name: up
\* to the first lock.
callLoad(t, id) ==
    /\ TaskOf(t).pc = "idle"
    /\ proc' = [proc EXCEPT !.task[t] = [NotCalled EXCEPT !.op = "Load", !.pc = "Load.lookup", !.arg = id]]
    /\ UNCHANGED <<sessions, disk, tmp, result>>
    /\ UNCHANGED <<corrupted, children, masterFds, loop, uiVars>>

callRename(t, o, newID) ==
    /\ TaskOf(t).pc = "idle"
    /\ sessions.obj[o].ID # ""
    /\ proc' = [proc EXCEPT !.task[t] = [NotCalled EXCEPT !.op = "Rename", !.pc = "Rename.muLock", !.obj = o,
                                                   !.arg = newID]]
    /\ UNCHANGED <<sessions, disk, tmp, result>>
    /\ UNCHANGED <<corrupted, children, masterFds, loop, uiVars>>

callNewWithConfig(t, id) ==
    /\ TaskOf(t).pc = "idle"
    /\ proc' = [proc EXCEPT !.task[t] = [NotCalled EXCEPT !.op = "NewWithConfig", !.pc = "New.Lock", !.arg = id]]
    /\ UNCHANGED <<sessions, disk, tmp, result>>
    /\ UNCHANGED <<corrupted, children, masterFds, loop, uiVars>>

\* save(): s.mu.RLock(), then the path is made from s.ID.
saveRLock(t) ==
    /\ TaskOf(t).pc = "save.RLock"
    /\ CanRLock(ObjectOf(t).mu)
    /\ sessions' = [sessions EXCEPT !.obj[TaskOf(t).obj].mu.r = @ \cup {t}]
    /\ proc' = [proc EXCEPT !.task[t].pc = "save.open", !.task[t].path = ObjectOf(t).ID]
    /\ UNCHANGED <<disk, tmp, result>>
    /\ UNCHANGED <<corrupted, children, masterFds, loop, uiVars>>

\* save(): os.WriteFile opens <ID>.json.tmp with O_CREATE|O_TRUNC; a task
\* that has the same file open goes on writing into it.
saveTruncate(t) ==
    /\ TaskOf(t).pc = "save.open"
    /\ LET path == TaskOf(t).path
       IN  tmp' = [tmp EXCEPT ![path] =
                     [missing |-> FALSE, ID |-> ObjectOf(t).ID, by |-> t,
                      open |-> (IF @.missing THEN {} ELSE @.open) \cup {t}]]
    /\ proc' = [proc EXCEPT !.task[t].pc = "save.write"]
    /\ UNCHANGED <<sessions, disk, result>>
    /\ UNCHANGED <<corrupted, children, masterFds, loop, uiVars>>

\* The files after task t has written its data into the file it has open,
\* under whatever name that file is by now.
DataWritten(files, t) ==
    [n \in DOMAIN files |->
        IF ~files[n].missing /\ t \in files[n].open
        THEN [files[n] EXCEPT !.open = @ \ {t}]
        ELSE files[n]]

\* save(): os.WriteFile writes the data and closes the file.
saveWriteData(t) ==
    /\ TaskOf(t).pc = "save.write"
    /\ tmp' = DataWritten(tmp, t)
    /\ disk' = DataWritten(disk, t)
    /\ proc' = [proc EXCEPT !.task[t].pc = "save.rename"]
    /\ UNCHANGED <<sessions, result>>
    /\ UNCHANGED <<corrupted, children, masterFds, loop, uiVars>>

\* The session lock after the deferred unlocks of the call of task t.
Released(m, t) == [w |-> IF m.w = t THEN 0 ELSE m.w, r |-> m.r \ {t}]

\* save(): os.Rename(tmpPath, filePath), which fails when the temporary
\* file is gone; then the deferred unlocks of save and of its caller run.
\* NewWithConfig takes the session off the index when save fails.
saveRenameFile(t) ==
    /\ TaskOf(t).pc = "save.rename"
    /\ LET path == TaskOf(t).path
           o    == TaskOf(t).obj
           err  == IF tmp[path].missing THEN "failed to rename session file" ELSE ""
           new  == TaskOf(t).op = "NewWithConfig"
       IN  /\ disk' = IF err = "" THEN [disk EXCEPT ![path] = tmp[path]] ELSE disk
           /\ tmp' = [tmp EXCEPT ![path] = NoFile]
           /\ sessions' = [sessions EXCEPT
                             !.obj[o].mu = Released(@, t),
                             !.index = IF new /\ err # ""
                                       THEN [@ EXCEPT ![TaskOf(t).arg] = 0]
                                       ELSE @]
           /\ proc' = [proc EXCEPT !.task[t] = Done(t, err),
                                   !.sessionsMu = IF new THEN Unlocked ELSE @]
           /\ Returns(t, err)
    /\ UNCHANGED <<corrupted, children, masterFds, loop, uiVars>>

\* SaveLayout, SelectLayout: s.mu.Lock(); SaveLayout sets Layouts[name],
\* SelectLayout returns an error for a name that is not there; both then
\* call save() with the lock held.
layoutLock(t) ==
    /\ TaskOf(t).pc = "layout.Lock"
    /\ CanLock(ObjectOf(t).mu)
    /\ LET o == TaskOf(t).obj
       IN  IF TaskOf(t).op = "SelectLayout" /\ TaskOf(t).arg \notin ObjectOf(t).Layouts
           THEN /\ proc' = [proc EXCEPT !.task[t] = Done(t, "layout not found")]
                /\ Returns(t, "layout not found")
                /\ UNCHANGED sessions
           ELSE /\ sessions' = [sessions EXCEPT
                                  !.obj[o].mu.w = t,
                                  !.obj[o].Layouts = IF TaskOf(t).op = "SaveLayout"
                                                     THEN @ \cup {TaskOf(t).arg} ELSE @]
                /\ proc' = [proc EXCEPT !.task[t].pc = "save.RLock"]
                /\ UNCHANGED result
    /\ UNCHANGED <<disk, tmp>>
    /\ UNCHANGED <<corrupted, children, masterFds, loop, uiVars>>

\* Load(id): sessionsMu.RLock(), the lookup, RUnlock; a session that is
\* there is returned unless its handle is dead.
loadLookup(t) ==
    /\ TaskOf(t).pc = "Load.lookup"
    /\ CanRLock(proc.sessionsMu)
    /\ LET o == sessions.index[TaskOf(t).arg]
       IN  IF o = 0
           THEN /\ proc' = [proc EXCEPT !.task[t].pc = "Load.disk"]
                /\ UNCHANGED result
           ELSE IF sessions.obj[o].handle = "dead"
           THEN /\ proc' = [proc EXCEPT !.task[t].pc = "Load.Lock", !.task[t].obj = o]
                /\ UNCHANGED result
           ELSE /\ proc' = [proc EXCEPT !.task[t] = [Done(t, "") EXCEPT !.obj = o]]
                /\ Returns(t, "")
    /\ UNCHANGED <<sessions, disk, tmp>>
    /\ UNCHANGED <<corrupted, children, masterFds, loop, uiVars>>

\* Load(id) of a session that is not in the index: loadFromDisk(id), which
\* fails on a missing file and on one that is not whole (of that one it
\* writes a copy named .corrupted), and sets the ID to the one asked for.
loadRead(t) ==
    /\ TaskOf(t).pc = "Load.disk"
    /\ LET file == disk[TaskOf(t).arg]
           err  == IF file.missing THEN "session not found"
                   ELSE IF file.open # {} THEN "failed to parse session file"
                   ELSE ""
       IN  /\ IF err # ""
              THEN /\ proc' = [proc EXCEPT !.task[t] = Done(t, err)]
                   /\ Returns(t, err)
                   /\ UNCHANGED sessions
              ELSE /\ sessions' = [sessions EXCEPT !.obj[NewObject(t)] =
                                     [Unborn EXCEPT !.ID = TaskOf(t).arg, !.handle = "slave"]]
                   /\ proc' = [proc EXCEPT !.task[t].pc = "Load.register",
                                           !.task[t].obj = NewObject(t)]
                   /\ UNCHANGED result
           /\ corrupted' = IF err = "failed to parse session file"
                           THEN corrupted \cup {TaskOf(t).arg}
                           ELSE corrupted
    /\ UNCHANGED <<disk, tmp>>
    /\ UNCHANGED <<children, masterFds, loop, uiVars>>

\* Load(id), the end: sessionsMu.Lock(), sessions[id] = sess, Unlock.
loadRegister(t) ==
    /\ TaskOf(t).pc = "Load.register"
    /\ CanLock(proc.sessionsMu)
    /\ sessions' = [sessions EXCEPT !.index[TaskOf(t).arg] = TaskOf(t).obj]
    /\ proc' = [proc EXCEPT !.task[t] = Done(t, "")]
    /\ Returns(t, "")
    /\ UNCHANGED <<disk, tmp>>
    /\ UNCHANGED <<corrupted, children, masterFds, loop, uiVars>>

\* Load(id) of a session whose handle is dead: sessionsMu.Lock(), then
\* ReconnectPTY down to its s.mu.Lock(); when pty.Reconnect fails (~ok) the
\* index lock is released and the session returned as it is.
loadLock(t, ok) ==
    /\ TaskOf(t).pc = "Load.Lock"
    /\ CanLock(proc.sessionsMu)
    /\ IF ok
       THEN /\ proc' = [proc EXCEPT !.sessionsMu.w = t, !.task[t].pc = "Load.muLock"]
            /\ UNCHANGED result
       ELSE /\ proc' = [proc EXCEPT !.task[t] = Done(t, "")]
            /\ Returns(t, "")
    /\ UNCHANGED <<sessions, disk, tmp>>
    /\ UNCHANGED <<corrupted, children, masterFds, loop, uiVars>>

\* ReconnectPTY, called by Load with the index lock held: s.mu.Lock(), the
\* new handle, Unlock; Load then releases the index lock and returns.
loadReconnect(t) ==
    /\ TaskOf(t).pc = "Load.muLock"
    /\ CanLock(ObjectOf(t).mu)
    /\ sessions' = [sessions EXCEPT !.obj[TaskOf(t).obj].handle = "slave"]
    /\ proc' = [proc EXCEPT !.sessionsMu = Unlocked, !.task[t] = Done(t, "")]
    /\ Returns(t, "")
    /\ UNCHANGED <<disk, tmp>>
    /\ UNCHANGED <<corrupted, children, masterFds, loop, uiVars>>

\* Rename(newID): s.mu.Lock().
renameLock(t) ==
    /\ TaskOf(t).pc = "Rename.muLock"
    /\ CanLock(ObjectOf(t).mu)
    /\ sessions' = [sessions EXCEPT !.obj[TaskOf(t).obj].mu.w = t]
    /\ proc' = [proc EXCEPT !.task[t].pc = "Rename.check"]
    /\ UNCHANGED <<disk, tmp, result>>
    /\ UNCHANGED <<corrupted, children, masterFds, loop, uiVars>>

\* Rename(newID): sessionsMu.RLock(), the test for the new name, RUnlock.
renameCheck(t) ==
    /\ TaskOf(t).pc = "Rename.check"
    /\ CanRLock(proc.sessionsMu)
    /\ IF sessions.index[TaskOf(t).arg] # 0
       THEN /\ sessions' = [sessions EXCEPT !.obj[TaskOf(t).obj].mu = Released(@, t)]
            /\ proc' = [proc EXCEPT !.task[t] = Done(t, "session already exists")]
            /\ Returns(t, "session already exists")
       ELSE /\ proc' = [proc EXCEPT !.task[t].pc = "Rename.swap"]
            /\ UNCHANGED <<sessions, result>>
    /\ UNCHANGED <<disk, tmp>>
    /\ UNCHANGED <<corrupted, children, masterFds, loop, uiVars>>

\* The index after delete(sessions, old); sessions[new] = s.
Moved(index, old, new, o) == [[index EXCEPT ![old] = 0] EXCEPT ![new] = o]

\* Rename(newID): sessionsMu.Lock(), the entry is moved and s.ID set
\* without a second test, both locks are released.
renameSwap(t) ==
    /\ TaskOf(t).pc = "Rename.swap"
    /\ CanLock(proc.sessionsMu)
    /\ LET o == TaskOf(t).obj
       IN  sessions' = [sessions EXCEPT
                          !.index = Moved(@, ObjectOf(t).ID, TaskOf(t).arg, o),
                          !.obj[o].ID = TaskOf(t).arg,
                          !.obj[o].mu = Released(@, t)]
    /\ proc' = [proc EXCEPT !.task[t].pc = "Rename.file", !.task[t].path = ObjectOf(t).ID]
    /\ UNCHANGED <<disk, tmp, result>>
    /\ UNCHANGED <<corrupted, children, masterFds, loop, uiVars>>

\* Rename(newID): os.Rename(oldPath, newPath), then save(); without the old
\* file the change is rolled back.
renameFile(t) ==
    /\ TaskOf(t).pc = "Rename.file"
    /\ LET old == TaskOf(t).path
           new == TaskOf(t).arg
       IN  IF disk[old].missing
           THEN /\ proc' = [proc EXCEPT !.task[t].pc = "Rename.rollback"]
                /\ UNCHANGED disk
           ELSE /\ proc' = [proc EXCEPT !.task[t].pc = "save.RLock"]
                /\ disk' = [[disk EXCEPT ![new] = disk[old]] EXCEPT ![old] = NoFile]
    /\ UNCHANGED <<sessions, tmp, result>>
    /\ UNCHANGED <<corrupted, children, masterFds, loop, uiVars>>

\* Rename(newID), the rollback: s.mu.Lock().
renameRollbackLock(t) ==
    /\ TaskOf(t).pc = "Rename.rollback"
    /\ CanLock(ObjectOf(t).mu)
    /\ sessions' = [sessions EXCEPT !.obj[TaskOf(t).obj].mu.w = t]
    /\ proc' = [proc EXCEPT !.task[t].pc = "Rename.restore"]
    /\ UNCHANGED <<disk, tmp, result>>
    /\ UNCHANGED <<corrupted, children, masterFds, loop, uiVars>>

\* Rename(newID), the rollback: sessionsMu.Lock(), the entry is moved back.
renameRestore(t) ==
    /\ TaskOf(t).pc = "Rename.restore"
    /\ CanLock(proc.sessionsMu)
    /\ LET o == TaskOf(t).obj
       IN  sessions' = [sessions EXCEPT
                          !.index = Moved(@, TaskOf(t).arg, TaskOf(t).path, o),
                          !.obj[o].ID = TaskOf(t).path,
                          !.obj[o].mu = Released(@, t)]
    /\ proc' = [proc EXCEPT !.task[t] = Done(t, "failed to rename session file")]
    /\ Returns(t, "failed to rename session file")
    /\ UNCHANGED <<disk, tmp>>
    /\ UNCHANGED <<corrupted, children, masterFds, loop, uiVars>>

\* NewWithConfig(id, ...): sessionsMu.Lock(), the test for the name, the
\* session is made and put into the index; save() follows with the index
\* lock held.
newLock(t) ==
    /\ TaskOf(t).pc = "New.Lock"
    /\ CanLock(proc.sessionsMu)
    /\ IF sessions.index[TaskOf(t).arg] # 0
       THEN /\ proc' = [proc EXCEPT !.task[t] = Done(t, "session already exists")]
            /\ Returns(t, "session already exists")
            /\ UNCHANGED sessions
       ELSE /\ sessions' = [sessions EXCEPT
                              !.obj[NewObject(t)] = [Unborn EXCEPT !.ID = TaskOf(t).arg,
                                                                   !.handle = "alive"],
                              !.index[TaskOf(t).arg] = NewObject(t)]
            /\ proc' = [proc EXCEPT !.sessionsMu.w = t, !.task[t].pc = "save.RLock",
                                    !.task[t].obj = NewObject(t)]
            /\ UNCHANGED result
    /\ UNCHANGED <<disk, tmp>>
    /\ UNCHANGED <<corrupted, children, masterFds, loop, uiVars>>

\* Sessions "a" and "b" are registered and saved, no call is under way.
\* The handle of "a" may be dead, and its record may hold a layout.
StoreInit ==
    /\ \E handle \in {"alive", "dead"}, layouts \in SUBSET {LayoutName} :
          sessions = [index |-> [n \in Names |-> IF n = "a" THEN 1 ELSE IF n = "b" THEN 2 ELSE 0],
                      obj   |-> [o \in Objects |->
                                   IF o = 1 THEN [Unborn EXCEPT !.ID = "a", !.handle = handle,
                                                                !.Layouts = layouts]
                                   ELSE IF o = 2 THEN [Unborn EXCEPT !.ID = "b", !.handle = "alive"]
                                   ELSE Unborn]]
    /\ proc = [sessionsMu |-> Unlocked, task |-> [t \in Tasks |-> NotCalled]]
    /\ disk = [n \in Names |-> IF n = "c" THEN NoFile ELSE Written(n, 0)]
    /\ tmp = [n \in Names |-> NoFile]
    /\ result = [op |-> "none", err |-> "", task |-> 0]
    /\ dr = <<>>
    /\ fed = <<>>
    /\ passed = <<>>
    /\ readErr = <<>>
    /\ corrupted = {}
    /\ children = <<>>
    /\ masterFds = <<>>
    /\ sb = <<>>
    /\ appended = <<>>
    /\ flow = <<>>
    /\ loop = <<>>

StoreNext ==
    \E t \in Tasks :
        \/ \E o \in {1, 2} : callAddUser(t, o)
        \/ \E op \in {"SaveLayout", "SelectLayout"}, o \in {1, 2} : callLayout(t, op, o)
        \/ \E id \in Names : callLoad(t, id)
        \/ \E o \in {1, 2}, newID \in Names : callRename(t, o, newID)
        \/ \E id \in Names : callNewWithConfig(t, id)
        \/ saveRLock(t)
        \/ saveTruncate(t)
        \/ saveWriteData(t)
        \/ saveRenameFile(t)
        \/ layoutLock(t)
        \/ loadLookup(t)
        \/ loadRead(t)
        \/ loadRegister(t)
        \/ \E ok \in BOOLEAN : loadLock(t, ok)
        \/ loadReconnect(t)
        \/ renameLock(t)
        \/ renameCheck(t)
        \/ renameSwap(t)
        \/ renameFile(t)
        \/ renameRollbackLock(t)
        \/ renameRestore(t)
        \/ newLock(t)

SpecStore == StoreInit /\ [][StoreNext]_vars

-----------------------------------------------------------------------------
(* Properties of the decoder *)

Last(seq) == seq[Len(seq)]

\* The keys of the fixed command table of state 1.
InFixedTable(b) ==
    \/ ImmediateCommand(b) # ""
    \/ InputState(b) # 0
    \/ (b >= 48 /\ b <= 57)
    \/ (b >= 65 /\ b <= 90)

\* The keys that enter a text-input state: ' < > A { }.
TextKeys == {39, 60, 62, 65, 123, 125}

\* A key that is not 'd', not the literal byte, not the command byte and in
\* neither command table.
UnmatchedKey(b) ==
    /\ b # 100
    /\ b # dr.literalChar
    /\ b # dr.commandChar
    /\ b \notin DOMAIN dr.bindings
    /\ ~InFixedTable(b)

\* The reader has been fed exactly the command byte and then key b.
FedCommandThen(b) == fed = <<dr.commandChar, b>>

\* C3: a keystroke sequence without the command byte, fed to a reader that
\* started in state 0, is passed through unchanged, byte for byte and in
\* order, and Read returns neither a window command nor ErrDetach.
C3_RoundTrip ==
    (\A i \in 1..Len(fed) : fed[i] # dr.commandChar)
        => /\ passed = fed
           /\ readErr = NoError

C3_Witness ==
    /\ Len(fed) = 3
    /\ \A i \in 1..Len(fed) : fed[i] # dr.commandChar
    /\ dr.commandChar = 122
    /\ fed[2] = 1
    /\ passed = fed

C5_TextCommandCarriesInput ==
    ( /\ Len(fed) >= 3
      /\ fed[1] = dr.commandChar
      /\ fed[2] \in TextKeys
      /\ fed[2] \notin DOMAIN dr.bindings
      /\ fed[2] # dr.literalChar
      /\ readErr.kind = "command" )
        => /\ readErr = TextCommand(InputState(fed[2]), SubSeq(fed, 3, Len(fed) - 1))
           /\ passed = NoBytes
           /\ dr.state = 0

\* C6 as stated: [commandByte, literalByte] passes exactly the command byte
\* through, returns no command and leaves the reader in state 0.
C6_AsStated ==
    FedCommandThen(dr.literalChar)
        => /\ passed = <<dr.commandChar>>
           /\ dr.pending = NoBytes
           /\ readErr = NoError
           /\ dr.state = 0

\* C6, amended: the same, provided the literal byte has no custom binding
\* and is not 'd' (both are tried before the literal byte).
C6_LiteralEscape ==
    ( /\ FedCommandThen(dr.literalChar)
      /\ dr.literalChar \notin DOMAIN dr.bindings
      /\ dr.literalChar # 100 )
        => /\ passed = <<dr.commandChar>>
           /\ dr.pending = NoBytes
           /\ readErr = NoError
           /\ dr.state = 0

C6_Witness ==
    /\ FedCommandThen(dr.literalChar)
    /\ dr.literalChar = 99
    /\ passed = <<dr.commandChar>>

\* C7: in state 1 the key is resolved in the order custom binding, 'd',
\* literal byte, fixed table: a bound key returns the bound command whatever
\* the key is, an unbound 'd' returns ErrDetach, and an unbound literal byte
\* other than 'd' passes the command byte through even when the fixed table
\* has that key.
C7_Precedence ==
    [][ ( /\ dr.state = 1
          /\ dr.pending = NoBytes
          /\ Len(fed') = Len(fed) + 1 )
        => LET b == Last(fed')
           IN  /\ b \in DOMAIN dr.bindings
                    => readErr' = ErrWindowCommand(dr.bindings[b], NoBytes, NoBytes)
               /\ (b \notin DOMAIN dr.bindings /\ b = 100)
                    => readErr' = ErrDetach
               /\ (b \notin DOMAIN dr.bindings /\ b # 100 /\ b = dr.literalChar)
                    => /\ readErr' = NoError
                       /\ passed' = Append(passed, dr.commandChar)
                       /\ dr'.state = 0
               /\ (b \notin DOMAIN dr.bindings /\ b # 100 /\ b # dr.literalChar
                     /\ b # 97 /\ b # dr.commandChar /\ ImmediateCommand(b) # "")
                    => readErr' = ErrWindowCommand(ImmediateCommand(b), NoBytes, NoBytes)
      ]_vars

C7_Witness ==
    /\ FedCommandThen(100)
    /\ 100 \in DOMAIN dr.bindings
    /\ dr.literalChar = 100
    /\ readErr = ErrWindowCommand("custom", NoBytes, NoBytes)

\* C8: digraph input takes exactly two bytes: after the first nothing is
\* passed on; after the second the reader is back in state 0 and passes on
\* the one byte the two hexadecimal digits encode, or both bytes unchanged
\* and in order when either is no hexadecimal digit.
C8_Digraph ==
    ( /\ Len(fed) >= 3
      /\ fed[1] = dr.commandChar
      /\ fed[2] = 22 )
        => /\ Len(fed) = 3
                => /\ dr.state = 8
                   /\ passed = NoBytes
                   /\ dr.pending = NoBytes
                   /\ readErr = NoError
           /\ Len(fed) = 4
                => /\ dr.state = 0
                   /\ readErr = NoError
                   /\ passed \o dr.pending =
                        IF hexValue(fed[3]) >= 0 /\ hexValue(fed[4]) >= 0
                        THEN <<16 * hexValue(fed[3]) + hexValue(fed[4])>>
                        ELSE <<fed[3], fed[4]>>

C8_Witness ==
    /\ fed = <<1, 22, 97, 99>>
    /\ passed = <<172>>
    /\ dr.state = 0

-----------------------------------------------------------------------------
(* Properties of the window list *)

\* The 0-9/A-Z scheme: "0123456789ABCDEFGHIJKLMNOPQRSTUVWXYZ".
SchemeDigits ==
    <<48, 49, 50, 51, 52, 53, 54, 55, 56, 57,
      65, 66, 67, 68, 69, 70, 71, 72, 73, 74, 75, 76, 77,
      78, 79, 80, 81, 82, 83, 84, 85, 86, 87, 88, 89, 90>>

\* C9: after any sequence of window mutators that leaves k windows, the
\* windows are numbered 0..k-1 in list order, each Number is its ID written
\* in the 0-9/A-Z scheme, and CurrentWindow and LastWindow lie in 0..k-1.
C9_DenseNumbering ==
    \A id \in SessionIDs :
        LET s == sessions[id]
            k == Len(s.Windows)
        IN  /\ \A i \in 1..k :
                 /\ s.Windows[i].ID = i - 1
                 /\ s.Windows[i].Number = <<SchemeDigits[i]>>
            /\ 0 <= s.CurrentWindow /\ s.CurrentWindow < k
            /\ 0 <= s.LastWindow /\ s.LastWindow < k

\* Eleven windows were created, so the last was numbered "A"; an earlier
\* one has been killed and the last is now window "9".
C9_Witness ==
    LET s == sessions["demo"]
    IN  /\ Len(s.Windows) = 10
        /\ s.Windows[10].Pid = 11
        /\ s.Windows[10].Number = <<57>>
        /\ result.op = "KillCurrentWindow"
        /\ result.err = ""

\* C10: KillCurrentWindow on a session with exactly one window returns the
\* last-window error, kills no process and leaves the one window in place.
C10_LastWindowProtected ==
    [][ \A id \in SessionIDs :
          ( /\ Len(sessions[id].Windows) = 1
            /\ result'.op = "KillCurrentWindow" )
          => /\ result'.err = "cannot kill the last window"
             /\ sessions'[id] = sessions[id]
             /\ children' = children
      ]_vars

\* The one window left after others were killed, its process running, and
\* KillCurrentWindow has just been refused.
C10_Witness ==
    LET s == sessions["demo"]
    IN  /\ Len(s.Windows) = 1
        /\ Len(children) >= 2
        /\ children[s.Windows[1].Pid].state = "running"
        /\ result = [op |-> "KillCurrentWindow", err |-> "cannot kill the last window"]


-----------------------------------------------------------------------------
(* Properties of the session store *)

\* The session a process has loaded from its record and reconnected by the
\* stored slave path: its own handle is a reopened slave.
LoadedAndReconnected(id) ==
    /\ proc.pc = "selected"
    /\ proc.sess = id
    /\ ~sessions[id].PTYProcess.nil
    /\ sessions[id].PTYProcess.Cmd = 0

\* C1: a session created and detached in one process can be attached from
\* another: when the second process has loaded the record and reconnected
\* by the stored slave path, attachToSession brings it into the attach loop
\* with the handle of the current window resolved; it does not exit because
\* the current window has no PTY process.
C1_ReattachResolvesWindow ==
    [][ \A id \in SessionIDs :
          (LoadedAndReconnected(id) /\ result'.op = "AttachWithConfig")
          => /\ proc'.pc = "attached"
             /\ proc'.err # "current window has no PTY process"
      ]_vars

\* The session an attached process created and has left as it was: its only
\* window is the first one, and the command of that window still runs.
CreatedAndUntouched(id) ==
    /\ proc.pc = "attached"
    /\ proc.sess = id
    /\ Len(sessions[id].Windows) = 1
    /\ sessions[id].Windows[1].Pid = sessions[id].Pid
    /\ children[sessions[id].Pid].state = "running"

\* The step in which the attached process detaches from such a session.
DetachStep(id) ==
    /\ CreatedAndUntouched(id)
    /\ result'.op = "startDetachKeeper"

\* The step of a process that creates the session detached (-d -m).
NewDetachedStep(id) ==
    /\ proc.pc = "none"
    /\ proc'.pc = "none"
    /\ Len(children') > Len(children)
    /\ ~disk'[id].missing
    /\ disk'[id].Pid = Len(children')

\* What the next process finds: List returns the session, the child of its
\* record runs, Load returns it with a handle that reports alive.
StaysLoadable(id) ==
    /\ \E sess \in List : sess.ID = id
    /\ ~disk[id].missing
    /\ children[disk[id].Pid].state = "running"
    /\ Load(id).err = ""
    /\ ~GetPTYProcess(Load(id).sess).nil
    /\ IsAlive(GetPTYProcess(Load(id).sess))

-----------------------------------------------------------------------------
(* Properties of the scrollback buffer *)

\* C11: after N > maxLines lines have been appended, exactly maxLines lines
\* are kept, the oldest N - maxLines are gone, and GetLine(i) for
\* 0 <= i < maxLines returns the line appended at position N - maxLines + i
\* (from 0): GetLine(0) is the oldest line kept and the rest follow in the
\* order they were appended.
C11_RingKeepsNewest ==
    LET N == Len(appended)
    IN  N > sb.maxLines
            => /\ sb.size = sb.maxLines
               /\ \A i \in 0..(sb.maxLines - 1) :
                      GetLine(sb, i) = appended[N - sb.maxLines + i + 1]
               /\ GetLine(sb, sb.maxLines) = NilLine

\* Five lines went into a buffer of three: "a", "b" were evicted and the
\* buffer has wrapped around.
C11_Witness ==
    /\ sb.maxLines = 3
    /\ appended = <<<<97>>, <<98>>, <<>>, <<98>>, <<97>>>>
    /\ sb.start = 2
    /\ GetLine(sb, 0) = <<>>

-----------------------------------------------------------------------------
(* Properties of the record files *)

\* The save a process is in, or was killed in: its position record.
SaveAt ==
    IF proc.pc = "save" THEN proc
    ELSE IF result.op = "crash" /\ result.at.pc = "save" THEN result.at
    ELSE [pc |-> "none"]

\* C12: while save runs, and after the process was killed anywhere between
\* the start of the temporary-file write and the rename, the target record
\* file is the file as it was before save or the whole new record, never a
\* cut-off one; and List reads the records from the target files only, never
\* from a temporary file.
C12_SaveIsAtomic ==
    /\ SaveAt.pc = "save"
            => /\ disk[SaveAt.sess] \in {SaveAt.before, SaveAt.data}
               /\ (disk[SaveAt.sess] # SaveAt.before => disk[SaveAt.sess].parses)
    /\ RecordIDs = {id \in SessionIDs : ~disk[id].missing}
    /\ sessions = NoSessions => \A sess \in List : Persisted(sess) = disk[sess.ID]

\* A process was killed while the temporary file held half of a new record
\* with another title than the one of the record in place: the target is
\* the whole old record, and List finds the session with the old title.
C12_Witness ==
    /\ result.op = "crash"
    /\ result.at.pc = "save"
    /\ result.at.step = "partial"
    /\ tmp["demo"] = Prefix(result.at.data, 1)
    /\ disk["demo"] = result.at.before
    /\ ~disk["demo"].missing
    /\ disk["demo"].parses
    /\ disk["demo"].ID = "demo"
    /\ disk["demo"].Windows[1].Title # result.at.data.Windows[1].Title
    /\ \E sess \in List : sess.Windows[1].Title = disk["demo"].Windows[1].Title
-----------------------------------------------------------------------------
(* Properties of the session store, continued *)

\* A step in which a process calls NewWithConfig(id) and gets a session.
NewStep(id) ==
    /\ proc.pc = "none"
    /\ \/ proc'.pc = "created" /\ proc'.sess = id
       \/ result'.op = "startDetachKeeper"

\* C13: NewWithConfig(id) does not make a session when one of that id
\* exists, in the index or as a record on disk only: the record stays as it
\* is and no new process is left running.
C13_CreateRefusesExistingId ==
    [][\A id \in SessionIDs :
          (NewStep(id) /\ (~sessions[id].nil \/ ~disk[id].missing))
              => /\ disk'[id] = disk[id]
                 /\ \A pid \in 1..Len(children') :
                       pid > Len(children) => children'[pid].state # "running"]_vars
\* C14: after a window mutator has returned without error, the record file
\* of the session holds the session as the mutator left it: the same
\* windows, CurrentWindow, LastWindow and titles.
C14_MutatorsPersist ==
    \A id \in SessionIDs :
        (~sessions[id].nil /\ result.err = "") => disk[id] = Persisted(sessions[id])
\* The pids of the window processes of the session of record file rec.
WindowPids(rec) ==
    IF rec.missing \/ ~rec.parses \/ rec.ID = "" THEN {}
    ELSE {rec.Windows[i].Pid : i \in 1..Len(rec.Windows)}

\* The pids of ps that run in the children ch.
Running(ps, ch) == {pid \in ps : pid \in 1..Len(ch) /\ ch[pid].state = "running"}

\* C15: when Delete(id) has returned without error for a registered session,
\* no window process of the session is alive, the index has no entry for id
\* and there is no record file for id, whether the handles of the session
\* come from StartWithEnv or from a reconnection; Delete(id) on an id that is
\* not registered tells "not found" and changes nothing.
C15_DeleteEndsSession ==
    [][\A id \in SessionIDs :
          /\ (proc.pc = "loaded" /\ proc.sess = id /\ result'.op = "Delete" /\ result'.err = "")
                 => /\ Running(WindowPids(disk[id]), children') = {}
                    /\ sessions'[id].nil
                    /\ disk'[id].missing
          /\ (sessions[id].nil /\ proc.pc = "wiping" /\ result'.op = "handleWipe")
                 => /\ Delete(id).err = "session not found"
                    /\ disk'[id] = disk[id]
                    /\ children' = AfterExit(children, masterFds).children]_vars
\* C16: -wipe removes dead sessions only. A session with a window process
\* that runs when -wipe starts keeps its record, and that process still
\* runs after it; only a session with no running window process loses its
\* record.
C16_WipeKeepsLiveSessions ==
    [][\A id \in SessionIDs :
          ((proc.pc = "none" /\ proc'.pc = "wiping") \/ proc.pc = "wiping")
              => /\ Running(WindowPids(disk[id]), children) # {}
                     => /\ disk'[id] = disk[id]
                        /\ Running(WindowPids(disk[id]), children')
                              = Running(WindowPids(disk[id]), children)
                 /\ (disk'[id] # disk[id]) => Running(WindowPids(disk[id]), children) = {}]_vars
\* The record file of id holds bytes that do not parse.
Unparsable(id) == ~disk[id].missing /\ ~disk[id].parses

\* C17: Load(id) on a record file that does not parse returns an error,
\* registers nothing in the index, and leaves ID.json.corrupted with the
\* bytes of the record, which stays as it is.
C17_CorruptRecordKept ==
    [][\A id \in SessionIDs :
          (proc.pc = "none" /\ result'.op = "Load" /\ proc'.sess = id /\ Unparsable(id))
              => /\ result'.err = "failed to parse session file"
                 /\ proc'.pc = "failed"
                 /\ sessions'[id].nil
                 /\ corrupted'[id] = disk[id]
                 /\ disk'[id] = disk[id]]_vars

\* Load has failed on bytes that do not parse, found in place of the record,
\* and the backup holds them.
C17_Witness ==
    /\ proc.pc = "failed"
    /\ proc.err = "failed to parse session file"
    /\ Unparsable("demo")
    /\ corrupted["demo"] = disk["demo"]
    /\ sessions["demo"].nil
\* The record of id is there, the process it names runs and its slave path
\* can be opened.
LiveRecord(id) ==
    /\ loadFromDiskErr(id) = ""
    /\ disk[id].Pid \in 1..Len(children)
    /\ children[disk[id].Pid].state = "running"
    /\ CanOpen(disk[id].PtsPath)

\* A step in which Load(id) is called: by handleSendCommand in a new
\* process, or once more by the process that has loaded the session.
LoadStep(id) ==
    \/ proc.pc = "none" /\ proc'.pc \in {"loaded", "failed"} /\ proc'.sess = id
    \/ proc.pc = "loaded" /\ proc.sess = id /\ result.op = "Load" /\ result'.op = "LoadAgain"

\* C18: Load(id), called while the process of the session runs and the stored
\* slave path is valid, returns a session whose handle reports alive, the
\* first time and the second time in a row, and starts no process.
C18_LoadTwice ==
    [][\A id \in SessionIDs :
          (LiveRecord(id) /\ LoadStep(id))
              => /\ result'.err = ""
                 /\ ~sessions'[id].nil
                 /\ ~GetPTYProcess(sessions'[id]).nil
                 /\ IsAlive(GetPTYProcess(sessions'[id]))
                 /\ children' = children]_vars

\* Load has been called a second time in a row on a detached session whose
\* command still runs: the session it returns has the reconnected handle.
C18_Witness ==
    /\ proc.pc = "loaded"
    /\ result.op = "LoadAgain"
    /\ result.err = ""
    /\ LiveRecord("demo")
    /\ children[disk["demo"].Pid].parent = "init"
    /\ sessions["demo"].PTYProcess = Reconnect(disk["demo"].PtsPath)
    /\ IsAlive(GetPTYProcess(sessions["demo"]))
-----------------------------------------------------------------------------
(* Properties of the flow-controlled copy *)

\* C19: with flow control on and no write failing, when the PTY has sent a
\* stop byte, "X", a start byte and "Y", "X" has not reached the sink and
\* "Y" has, however the four bytes were split into reads.
C19_StoppedDataWithheld ==
    (flow.Enabled /\ ~flow.writeFailed /\ flow.read = <<XOFF, 88, XON, 89>>)
        => flow.sink = <<89>>

\* C20: with flow control on, no XOFF and no XON byte is in what was written
\* to the sink.
C20_ControlBytesStripped ==
    flow.Enabled => \A i \in 1..Len(flow.sink) : flow.sink[i] \notin {XON, XOFF}

\* A read that held an XON between two data bytes has been written: the
\* sink has the data bytes only.
C20_Witness ==
    /\ flow.Enabled
    /\ flow.read = <<XOFF, 88, XON, 89>>
    /\ flow.sink = <<88, 89>>
-----------------------------------------------------------------------------
(* Properties of the attach loop *)

\* The window commands of the attach loop that the processes here type.
CommandOps == {"CreateWindow", "NextWindow", "KillCurrentWindow"}

\* A step in which the attach loop of the session gets a window command
\* from the input task and handles it.
CommandStep(id) ==
    /\ proc.pc = "attached"
    /\ proc.sess = id
    /\ loop' # loop
    /\ result'.op \in CommandOps

\* C21: when the input task yields a command, the attach loop applies it and
\* starts its next iteration, the attach session still running; a command
\* that is refused leaves it running on the window that was current.
C21_CommandRestartsLoop ==
    [][\A id \in SessionIDs :
          CommandStep(id)
              => /\ proc'.pc = "attached"
                 /\ loop'.iteration = loop.iteration + 1
                 /\ result'.err # ""
                       => GetCurrentWindow(sessions'[id]) = GetCurrentWindow(sessions[id])]_vars
\* The step in which the loop takes what the output task of the current
\* window sent after its read met the end of the stream.
OutputEnded(id) ==
    /\ proc.pc = "attached"
    /\ proc.sess = id
    /\ result'.op = "outputDone"
    /\ result'.read = ""

\* C22: when the output task ends with the end of the stream on the PTY of
\* the current window and the session has more than one window, the loop
\* goes to the next window and restarts; it returns success (the process
\* ends without an error) only when that window was the only one.
C22_OutputEndAdvances ==
    [][\A id \in SessionIDs :
          OutputEnded(id)
              => IF Len(sessions[id].Windows) > 1
                 THEN /\ proc'.pc = "attached"
                      /\ sessions'[id] = NextWindow(sessions[id]).sess
                      /\ loop'.iteration = loop.iteration + 1
                 ELSE /\ proc'.pc = "none"
                      /\ proc'.err = ""]_vars

\* The step in which the loop takes a hangup signal from hupChan.
HangupStep(id) ==
    /\ proc.pc = "attached"
    /\ proc.sess = id
    /\ result'.op = "hupChan"

\* C23: when a hangup signal arrives during an iteration, the loop calls the
\* detach hook and then returns ErrDetach, and the process is left exactly
\* as the case of the detach key (inputDone with ErrDetach) leaves it.
C23_HangupDetaches ==
    [][\A id \in SessionIDs :
          HangupStep(id)
              => /\ loop'.calls = loop.calls + 1
                 /\ result'.err = "ErrDetach"
                 /\ \E started \in BOOLEAN : DetachCase(id, OnInputDetach, started)]_vars

\* The hangup has been taken, the hook has started the keeper, which holds
\* the master of the window, and the process waits for its readiness byte.
C23_Witness ==
    /\ result.op = "hupChan"
    /\ proc.pc = "waitingInLoop"
    /\ loop.hooks = 1
    /\ "keeper" \in masterFds[GetCurrentWindow(sessions[proc.sess]).Pid]

\* The step in which the loop takes a termination signal from termChan.
TermStep(id) ==
    /\ proc.pc = "attached"
    /\ proc.sess = id
    /\ result'.op = "termChan"

\* C24: when a termination signal arrives, the loop sends that signal to
\* the process of every window of the session, not only to the current
\* window's, and then returns the fatal error that ends the process.
C24_TermSignalForwarded ==
    [][\A id \in SessionIDs :
          TermStep(id)
              => /\ \A i \in 1..Len(sessions[id].Windows) :
                       sessions[id].Windows[i].Pid \in result'.signalled
                 /\ result'.sig \in TermSignals
                 /\ proc'.pc = "none"
                 /\ proc'.err = "terminated by signal"]_vars

\* A termination signal has been forwarded to the commands of two windows,
\* one of which has ended on it.
C24_Witness ==
    /\ result.op = "termChan"
    /\ Cardinality(result.signalled) = 2
    /\ \E pid \in result.signalled : children[pid].cause = result.sig

\* C25: the detach hook starts the keeper hand-off at most once in an attach
\* session, also when the loop has called it on a detach or a hangup and
\* attachToSession calls it again after the loop has returned.
C25_DetachHookOnce == loop.hooks <= 1

\* The hook has been called twice, by the loop and by attachToSession, and
\* has run the hand-off once.
C25_Witness ==
    /\ proc.pc = "done"
    /\ loop.calls = 2
    /\ loop.hooks = 1

\* C26: the keeper hand-off never blocks the detach: once the hook has run
\* it, the process waits for the readiness byte no longer than the deadline
\* of the read and then goes on to exit, whether the byte arrived, the
\* keeper could not be started or the deadline passed.
C26_HandoffNeverBlocks == (loop.hooks = 1) ~> (proc.pc = "none")

\* The process has left after a hand-off whose wait ended: the keeper holds
\* the master and the command of the window runs on under init.
C26_Witness ==
    /\ proc.pc = "none"
    /\ result.op = "return"
    /\ \E pid \in 1..Len(children) :
          /\ "keeper" \in masterFds[pid]
          /\ children[pid].state = "running"
          /\ children[pid].parent = "init"

\* The entry points that reattach.
ReattachOps ==
    {"handleReattachWithConfig", "handleReattachOrCreate", "handleReattachOrCreateRR"}

\* C27: when a reattach is asked for without a name and more than one
\* detachable session exists, no session is attached and the whole list of
\* candidates is reported (with -q their number is, by the exit status); a
\* session is chosen by the program only when exactly one detachable
\* session exists. On every entry point that reattaches, -R and -RR
\* included (-x attaches to the only session whatever its state).
C27_AmbiguousReattachRefused ==
    result.op \in ReattachOps
        => /\ Cardinality(Detached(sessions)) > 1
                => /\ result.sess = 0
                   /\ ~result.created
                   /\ \/ Detached(sessions) \subseteq result.printed
                      \/ result.exit = 10 + Cardinality(Detached(sessions))
           /\ result.sess # 0 /\ ~result.multiuser
                => Cardinality(Detached(sessions)) = 1

\* The first half alone, on the entry points of -r and -x: it holds there.
C27_ReattachAlone ==
    result.op = "handleReattachWithConfig"
        => /\ Cardinality(Detached(sessions)) > 1
                => /\ result.sess = 0
                   /\ \/ Detached(sessions) \subseteq result.printed
                      \/ result.exit = 10 + Cardinality(Detached(sessions))
           /\ result.sess # 0 /\ ~result.multiuser
                => Cardinality(Detached(sessions)) = 1

\* The number of dots in a name.
Dots(name) == Cardinality({i \in 1..Len(name) : name[i] = 46})

\* C28: a session created without a name gets the name <pid>.<tty>.<host>
\* made by defaultSessionName (letters, digits, '-', '_' and '.'), and the
\* creation accepts that name.
C28_DefaultNameAccepted ==
    result.op \in {"handleNew", "handleNewDetached"}
        => /\ SubSeq(result.name, 1, Len(Decimal(proc.pid)) + 1)
                  = Decimal(proc.pid) \o <<46>>
           /\ Dots(result.name) >= 2
           /\ \A i \in 1..Len(result.name) :
                 isValidSessionChar(result.name[i]) \/ result.name[i] = 46
           /\ result.err = ""

\* The output tasks that read the master of the PTY of child pid.
ReadersOf(pid) == {t \in loop.readers : t[2] = pid}

\* C29: a PTY master has at most one output task reading it at any instant:
\* the tasks an earlier iteration has left behind and those of the current
\* iteration work on different PTY handles, also when the loop restarts on
\* a command that leaves the current window as it was.
C29_OneReaderPerMaster ==
    proc.pc = "attached"
        => \A pid \in 1..Len(children) :
              children[pid].state = "running" => Cardinality(ReadersOf(pid)) <= 1

\* C30: one resize-watcher task exists for the whole attach session, however
\* many iterations of the loop there are.
C30_OneResizeWatcher ==
    proc.pc = "attached" => loop.watchers = 1


\* The write-then-rename of save() is under way in task t.
Writing(t) == TaskOf(t).pc \in {"save.write", "save.rename"}

\* C31: within one process at most one write-then-rename of the record of
\* a session ID is under way at a time, and the record file that a save has
\* put in place is never a partially written one.
C31_OneSaveAtATime ==
    /\ \A t, u \in Tasks :
          t # u /\ Writing(t) /\ Writing(u) => TaskOf(t).path # TaskOf(u).path
    /\ \A n \in Names : ~disk[n].missing => disk[n].open = {}

\* The second half of C31 alone: no record file in place is one that a task
\* has truncated and not written yet.
C31_RecordWhole == \A n \in Names : ~disk[n].missing => disk[n].open = {}

\* Task t is in save() at s.mu.RLock() and holds that lock for writing
\* itself: the lock is not reentrant, so the task stays there.
WaitsForItself(t) ==
    /\ TaskOf(t).pc = "save.RLock"
    /\ ObjectOf(t).mu.w = t

\* C36: SaveLayout and SelectLayout always return; the save() they call
\* never waits for the session lock that the call itself holds.
C36_LayoutCallsReturn ==
    \A t \in Tasks :
        TaskOf(t).op \in {"SaveLayout", "SelectLayout"} => ~WaitsForItself(t)

\* Load in task t holds the index lock and waits in ReconnectPTY for the
\* lock of its session, while Rename in task u holds that session's lock
\* and waits for the index lock: neither can go on.
LockCycle(t, u) ==
    /\ TaskOf(t).op = "Load"
    /\ TaskOf(t).pc = "Load.muLock"
    /\ proc.sessionsMu.w = t
    /\ TaskOf(u).op = "Rename"
    /\ TaskOf(u).pc \in {"Rename.check", "Rename.swap", "Rename.restore"}
    /\ TaskOf(u).obj = TaskOf(t).obj
    /\ ObjectOf(u).mu.w = u

\* C35: a Load of a registered session whose handle is dead and a Rename
\* of the same session, run at the same time, both complete: they never
\* hold the session lock and the index lock in opposite orders, each
\* waiting for the other.
C35_LoadAndRenameComplete == \A t, u \in Tasks : ~LockCycle(t, u)

\* Task t claims a new session ID: a Rename to it or a NewWithConfig of it.
Claims(t) == TaskOf(t).op \in {"Rename", "NewWithConfig"}

\* The calls of tasks t and u, which claimed the same ID, have returned.
SameClaimDone(t, u) ==
    /\ t # u
    /\ Claims(t) /\ Claims(u)
    /\ TaskOf(t).arg = TaskOf(u).arg
    /\ TaskOf(t).pc = "done" /\ TaskOf(u).pc = "done"

\* The sessions registered when the tasks start and those made by a
\* NewWithConfig that returned nil.
RegisteredObjects ==
    {1, 2} \cup {NewObject(t) : t \in {u \in Tasks : /\ TaskOf(u).op = "NewWithConfig"
                                                     /\ TaskOf(u).pc = "done"
                                                     /\ TaskOf(u).err = ""}}

\* C37: of two operations that claim the same new session ID at the same
\* time not both succeed, and after them every registered session is in
\* the index under the key that equals its ID field.
C37_OneClaimWins ==
    \A t, u \in Tasks :
        SameClaimDone(t, u) =>
            /\ ~(TaskOf(t).err = "" /\ TaskOf(u).err = "")
            /\ \A o \in RegisteredObjects : sessions.index[sessions.obj[o].ID] = o

\* C32: in an attach session the output of a window goes into that
\* window's own scrollback buffer only: no buffer is given to the output
\* tasks of two windows, also after KillCurrentWindow has renumbered the
\* windows, and a window keeps the one buffer it had.
C32_OwnScrollbackOnly ==
    \A p, q \in loop.buffers :
        /\ p[1] = q[1] => p[2] = q[2]
        /\ p[2] = q[2] => p[1] = q[1]

\* The step in which the process attached to session id, which has several
\* windows, detaches and exits.
SeveralWindowsDetach(id) ==
    /\ proc.pc = "attached"
    /\ proc.sess = id
    /\ Len(sessions[id].Windows) > 1
    /\ result'.op = "startDetachKeeper"
    /\ proc'.pc = "none"

\* C33: after a detach of a session with several windows the master of
\* every window is still held open by some process when the attach process
\* has exited, so the process of no window is hung up.
C33_KeeperHoldsEveryWindow ==
    [][\A id \in SessionIDs :
          SeveralWindowsDetach(id) =>
              \A i \in 1..Len(sessions[id].Windows) :
                  LET pid == sessions[id].Windows[i].Pid
                  IN  children[pid].state = "running" =>
                          /\ masterFds'[pid] # {}
                          /\ children'[pid].state = "running"]_vars

\* The process is attached to session id, which has more than one window,
\* and the process of every window has exited.
AllWindowsExited(id) ==
    /\ proc.pc = "attached"
    /\ proc.sess = id
    /\ Len(sessions[id].Windows) > 1
    /\ \A i \in 1..Len(sessions[id].Windows) :
          /\ sessions[id].Windows[i].Pid \in 1..Len(children)
          /\ children[sessions[id].Windows[i].Pid].state # "running"

\* C34: when the process of every window has exited and the session has
\* more than one window, the end of the output makes the attach loop return
\* and not advance to the next dead window, and the loop does return (or
\* the user makes a new window or kills all but one first).
C34_DeadWindowsEndLoop ==
    /\ [][\A id \in SessionIDs :
            AllWindowsExited(id) /\ result'.op = "outputDone" => proc'.pc # "attached"]_vars
    /\ (\E id \in SessionIDs : AllWindowsExited(id))
           ~> ~(\E id \in SessionIDs : AllWindowsExited(id))

\* The loop has returned on the end of the output of a session of several
\* windows whose processes have all exited.
C34_Witness ==
    /\ proc.pc = "returned"
    /\ result.op = "outputDone"
    /\ Len(sessions[proc.sess].Windows) > 1
    /\ \A i \in 1..Len(sessions[proc.sess].Windows) :
          children[sessions[proc.sess].Windows[i].Pid].state # "running"

\* The step in which the loop takes from outputDone the end or the failure
\* of the output of the current window, whose process is dead, in a session
\* of several windows.
OutputSideEnded(id) ==
    /\ proc.pc = "attached"
    /\ proc.sess = id
    /\ Len(sessions[id].Windows) > 1
    /\ result'.op = "outputDone"

C38_NoOldInputTask ==
    proc.pc = "attached" => \A t \in loop.inputs : t[1] = loop.iteration

\* The data bytes of stream that come before its first stop byte.
RECURSIVE BeforeStop(_)
BeforeStop(stream) ==
    IF stream = <<>> \/ Head(stream) = XOFF THEN <<>>
    ELSE IF Head(stream) = XON THEN BeforeStop(Tail(stream))
    ELSE <<Head(stream)>> \o BeforeStop(Tail(stream))

\* C39: with flow control on, forwarding not suspended at the start and no
\* write failing, every data byte read from the PTY before a stop byte has
\* been written to the sink, also when the stop byte came in the same read.
C39_DataBeforeStopForwarded ==
    (flow.Enabled /\ ~flow.writeFailed) =>
        LET data == BeforeStop(flow.read)
        IN  /\ Len(data) <= Len(flow.sink)
            /\ SubSeq(flow.sink, 1, Len(data)) = data

\* The lines a buffer retains, oldest first.
Retained(b) == [i \in 1..b.size |-> GetLine(b, i - 1)]

\* C40: the lines a ScrollbackBuffer retains depend on the byte stream
\* written and not on how it was split into AppendBytes calls: they are the
\* lines one call with the whole stream gives, so after a call that ended
\* with a newline the next call starts a new line.
C40_SplitIndependent ==
    appended # <<>> =>
        Retained(sb) = Retained(AppendBytes(NewScrollbackBuffer(sb.maxLines), appended))

====
